---- MODULE Spec2Model ----
(***************************************************************************)
(* Verification model of pywr-next (knoxsp/pywr-next).                     *)
(*                                                                         *)
(* The module holds several state machines, one per part of the program,   *)
(* each with its own variables and its own specification:                  *)
(*   SwitchSpec  the AsymmetricSwitchIndex parameter over a run            *)
(*   WtwSpec     building and running a network with a WaterTreatmentWorks *)
(*   SchedSpec   the per-timestep parameter schedule of the driver         *)
(*   MetricSpec  Metric::get_value applied to a network and a state        *)
(*   ParamSpec   Parameter::compute of one parameter over a run            *)
(*   VsSpec      adding a VirtualStorageNode to a network, and its run     *)
(*   ClpSpec     calls on a ClpSolverSettingsBuilder                       *)
(*   ConvSpec    conversion of a v1 node to a v2 node                      *)
(*   CcSpec      a ControlCurvePiecewiseInterpolated parameter over a run  *)
(*   CsSpec      control curve schema parameters: v1 conversion, queries   *)
(*   NtSpec      CoreNode::node_type                                       *)
(*   AggSpec     the summing metrics of Metric::get_value                  *)
(*   TsSpec      LoadedTimeseriesCollection: from_schema and the loads     *)
(* A specification leaves the variables of the other parts at their idle   *)
(* values.                                                                 *)
(***************************************************************************)
EXTENDS Integers, Sequences, FiniteSets

VARIABLES
    \* --- AsymmetricSwitchIndex ---
    swPc,        \* "build" | "run": position of the switch run
    swInputs,    \* "vector" | "free": what drives the on/off index parameters
    swParams,    \* the network's index parameters, in insertion order
    swT,         \* number of timesteps computed so far
    swInternal,  \* per-scenario internal state of the switch parameter
    swOn,        \* per-scenario value of the on index parameter this step
    swOff,       \* per-scenario value of the off index parameter this step
    swTrace      \* per-scenario sequence of the switch's computed values

swVars == <<swPc, swInputs, swParams, swT, swInternal, swOn, swOff, swTrace>>

VARIABLES
    \* --- WaterTreatmentWorks ---
    wtwPc,       \* position of the build: "input", "wtw", "demand", "edges",
                 \* "constraints", "demand_constraints", "run"
    wtwNode,     \* the WaterTreatmentWorks schema node being built
    wtwModel,    \* the core model: nodes, edges, aggregated nodes, parameters
    wtwT,        \* number of timesteps solved so far
    wtwParam,    \* current value of the loss factor parameter (when one is used)
    wtwFlows,    \* edge flows of the latest solved step
    wtwIn,       \* node in-flows of the latest solved step
    wtwOut,      \* node out-flows of the latest solved step
    wtwSolver    \* the solver's program: the optimal flows per parameter value

wtwVars == <<wtwPc, wtwNode, wtwModel, wtwT, wtwParam, wtwFlows, wtwIn, wtwOut, wtwSolver>>

\* The parameter schedule of a run: evaluation order and per-scenario progress.
VARIABLES
    schedNet,    \* the parameters of the network: their kinds and dependencies
    schedOrder,  \* the evaluation order fixed at freeze
    schedT,      \* the timestep being run (0 before the first)
    schedPc,     \* per scenario: "wait", "compute", "refresh" or "done"
    schedPos,    \* per scenario: how many parameters have been computed this step
    schedLog,    \* per scenario: the calls and reads of the step being run
    schedPrev    \* per scenario: the order of computation of the previous step

schedVars == <<schedNet, schedOrder, schedT, schedPc, schedPos, schedLog, schedPrev>>

\* Metric evaluation: a network, a state, and the calls of Metric::get_value.
VARIABLES
    metNetwork,  \* the Network handed to get_value
    metState,    \* the State handed to get_value
    metMetric,   \* the metric evaluated
    metBefore,   \* the network and the state as they were before the latest call
    metResults   \* the results of the calls so far, in order

metVars == <<metNetwork, metState, metMetric, metBefore, metResults>>

\* Parameter computation: one parameter, computed at successive timesteps.
VARIABLES
    parParam,    \* the parameter computed
    parState,    \* per scenario: the state handed to compute
    parStart,    \* the month of the first timestep
    parT,        \* the index of the next timestep
    parLast,     \* the timestep and the per-scenario results of the latest step
    parPc        \* "run" | "aborted": aborted once a compute has panicked

parVars == <<parParam, parState, parStart, parT, parLast, parPc>>

\* Virtual storage: a schema node added to a network, then a run.
VARIABLES
    vsPc,        \* "build" | "run" | "failed"
    vsNode,      \* the VirtualStorageNode of the schema
    vsNetwork,   \* the core network: node names and virtual storage nodes
    vsBefore,    \* the network as it was before add_to_model
    vsResult,    \* the result of add_to_model, once called
    vsT,         \* number of timesteps run so far
    vsFlows,     \* the flow of each network node at the latest step
    vsVolumes    \* the volume of the added virtual storage: initial, then per step

vsVars == <<vsPc, vsNode, vsNetwork, vsBefore, vsResult, vsT, vsFlows, vsVolumes>>

\* The CLP solver settings builder and the calls made on it.
VARIABLES
    clpBuilder,  \* the ClpSolverSettingsBuilder
    clpPrev,     \* the builder as it was before the latest call
    clpCalls,    \* the calls made so far, in order
    clpSettings, \* the settings returned by the latest build()
    clpDefault   \* the settings returned by the latest ClpSolverSettings::default()

clpVars == <<clpBuilder, clpPrev, clpCalls, clpSettings, clpDefault>>

\* Conversion of a v1 node of a model file to a v2 node.
VARIABLES
    convV1,      \* the v1 node converted
    convCall,    \* "none" | "Node" | "CoreNode": the conversion called
    convResult,  \* the outcome of the conversion, once called
    convPc       \* "start" | "done" | "aborted": aborted once a conversion panicked

convVars == <<convV1, convCall, convResult, convPc>>

\* A ControlCurvePiecewiseInterpolated parameter: built, then computed.
VARIABLES
    ccPc,        \* "build" | "run"
    ccSchema,    \* the schema parameter
    ccModel,     \* the model: parameter names and the piecewise parameter added
    ccCurve,     \* the value of the control curve parameter reservoir_cc
    ccT,         \* number of timesteps computed so far
    ccVolume,    \* the storage node's proportional volume at the latest step
    ccValue      \* the parameter's value at the latest step

ccVars == <<ccPc, ccSchema, ccModel, ccCurve, ccT, ccVolume, ccValue>>

\* Control curve parameters of the schema: conversion from v1 and queries.
VARIABLES
    csPc,        \* "v1" | "v2" | "failed": before, after a conversion, after its error
    csV1,        \* the v1 parameter converted (None for a parameter read as v2)
    csResult,    \* the result of try_from_v1_parameter, once called
    csParam,     \* the v2 schema parameter at hand
    csRefs,      \* the map returned by the latest node_references()
    csAttrs      \* the map returned by the latest parameters()

csVars == <<csPc, csV1, csResult, csParam, csRefs, csAttrs>>

\* CoreNode::node_type: the nodes asked and the strings returned so far.
VARIABLES ntNodes, ntTypes
ntVars == <<ntNodes, ntTypes>>

\* The summing metrics: a network, a state, a metric and what get_value returned.
VARIABLES aggNetwork, aggState, aggMetric, aggResult
aggVars == <<aggNetwork, aggState, aggMetric, aggResult>>

VARIABLES
    \* --- LoadedTimeseriesCollection ---
    tsPc,          \* "schema" | "loaded" | "failed" | "aborted"
    tsDefs,        \* the timeseries definitions handed to from_schema
    tsCollection,  \* what from_schema returned, once called
    tsNetwork,     \* the network the parameters are added to
    tsBefore,      \* the network before the latest load_column / load_df
    tsCall,        \* the latest load_column / load_df call
    tsResult,      \* what the latest call returned
    tsCalls        \* number of load_column / load_df calls made

tsVars == <<tsPc, tsDefs, tsCollection, tsNetwork, tsBefore, tsCall, tsResult, tsCalls>>

vars == <<swVars, wtwVars, schedVars, metVars, parVars, vsVars, clpVars, convVars, ccVars, csVars, ntVars, aggVars, tsVars>>

(***************************************************************************)
(* Shared helpers                                                          *)
(***************************************************************************)
None == [some |-> FALSE]
Some(v) == [some |-> TRUE, value |-> v]

Ok(v) == [ok |-> TRUE, value |-> v]
Err(e) == [ok |-> FALSE, error |-> e]

Scenarios == {1, 2}

(***************************************************************************)
(* AsymmetricSwitchIndex                                                   *)
(***************************************************************************)
\* Number of timesteps of a run whose index parameters take arbitrary values.
SwMaxSteps == 4

\* Values an index parameter may take.
IndexValues == {0, 1, 2}

\* The on and off vectors of scenario S5 and the values it expects.
S5On == <<0, 1, 0, 0, 1>>
S5Off == <<0, 0, 0, 1, 0>>
S5Expected == <<0, 1, 1, 0, 1>>

\* pywr_core::parameters::AsymmetricSwitchIndexParameter::new(name, on, off)
AsymmetricSwitchNew(name, on_index_parameter, off_index_parameter) ==
    [kind |-> "AsymmetricSwitchIndex", name |-> name,
     on |-> on_index_parameter, off |-> off_index_parameter]

\* A wiring slip: the two loaded parameters handed over in the wrong order.
AsymmetricSwitchAddToModelSwapped(params) ==
    LET on_index_parameter == Len(params) + 1
        off_index_parameter == Len(params) + 2
    IN params \o << [kind |-> "Input", name |-> "on"],
                    [kind |-> "Input", name |-> "off"],
                    AsymmetricSwitchNew("switch", off_index_parameter, on_index_parameter) >>

\* AsymmetricSwitchIndexParameter::add_to_model: load the on index parameter,
\* then the off index parameter (each load adds it to the network and yields
\* its index), build the core parameter from the two and add it too.
AsymmetricSwitchAddToModel(params) ==
    LET on_index_parameter == Len(params) + 1
        off_index_parameter == Len(params) + 2
    IN params \o << [kind |-> "Input", name |-> "on"],
                    [kind |-> "Input", name |-> "off"],
                    AsymmetricSwitchNew("switch", on_index_parameter, off_index_parameter) >>

\* The switch parameter of the network (the last one added).
SwSwitch == swParams[Len(swParams)]

\* The value of index parameter idx for scenario s in the step being computed.
SwIndexValue(idx, on, off, s) ==
    IF swParams[idx].name = "on" THEN on[s] ELSE off[s]

\* AsymmetricSwitchIndexParameter::compute: the new value from the internal
\* state and the two index parameters' values.
AsymmetricSwitchCompute(current_state, on_value, off_value) ==
    IF current_state = 0
    THEN IF on_value # 0 THEN 1 ELSE 0
    ELSE IF off_value # 0 THEN 0 ELSE 1

SwInit ==
    /\ swPc = "build"
    /\ swInputs \in {"vector", "free"}
    /\ swParams = << >>
    /\ swT = 0
    /\ swInternal = [s \in Scenarios |-> 0]
    /\ swOn = [s \in Scenarios |-> 0]
    /\ swOff = [s \in Scenarios |-> 0]
    /\ swTrace = [s \in Scenarios |-> << >>]

\* Build phase: the schema parameter is added to the network; setup then
\* gives every scenario the initial internal state 0.
SwAddToModel ==
    /\ swPc = "build"
    /\ swParams' = AsymmetricSwitchAddToModel(swParams)
    /\ swPc' = "run"
    /\ swInternal' = [s \in Scenarios |-> 0]
    /\ UNCHANGED <<swInputs, swT, swOn, swOff, swTrace>>

SwRunLength == IF swInputs = "vector" THEN Len(S5On) ELSE SwMaxSteps

\* One timestep: the on and off index parameters are computed first (they are
\* the switch's dependencies), then the switch, for every scenario.
SwStep ==
    /\ swPc = "run"
    /\ swT < SwRunLength
    /\ \E on \in [Scenarios -> IndexValues], off \in [Scenarios -> IndexValues] :
        /\ swInputs = "vector" =>
              \A s \in Scenarios : on[s] = S5On[swT + 1] /\ off[s] = S5Off[swT + 1]
        /\ swOn' = on
        /\ swOff' = off
        /\ swInternal' = [s \in Scenarios |->
              AsymmetricSwitchCompute(swInternal[s],
                                      SwIndexValue(SwSwitch.on, on, off, s),
                                      SwIndexValue(SwSwitch.off, on, off, s))]
        /\ swTrace' = [s \in Scenarios |-> Append(swTrace[s], swInternal'[s])]
    /\ swT' = swT + 1
    /\ UNCHANGED <<swPc, swInputs, swParams>>

SwNext == SwAddToModel \/ SwStep

SwIdle ==
    /\ swPc = "idle"
    /\ swInputs = "free"
    /\ swParams = << >>
    /\ swT = 0
    /\ swInternal = [s \in Scenarios |-> 0]
    /\ swOn = [s \in Scenarios |-> 0]
    /\ swOff = [s \in Scenarios |-> 0]
    /\ swTrace = [s \in Scenarios |-> << >>]

(***************************************************************************)
(* WaterTreatmentWorks: the schema node, the model it builds, and the run  *)
(* of the three-node network input1 -> wtw1 -> demand1.                    *)
(***************************************************************************)
\* Number of timesteps of a run.
WtwMaxSteps == 2

\* Largest flow, in flow units, the solver's search grid holds on one route.
MaxFlow == 15

\* The model of test_model_run (model_str).
WtwMaxFlow == 10
DemandMaxFlow == 15
DemandCost == -10

\* A rational number num/den, den > 0.
Rat(num, den) == [num |-> num, den |-> den]

\* The loss factor of model_str, 0.1.
WtwLossFactor == Rat(1, 10)

\* pywr_core::metric::Metric, the variants a loaded value can be.
Constant(v) == [type |-> "Constant", value |-> v]
ParameterValue(idx) == [type |-> "ParameterValue", idx |-> idx]

\* A schema DynamicFloatValue: a literal, or a reference to a parameter.
Literal(v) == [dynamic |-> "Constant", value |-> v]
ParameterRef(name) == [dynamic |-> "Parameter", name |-> name]

\* Values the loss factor parameter can take at run time.
LossParamValues == {Rat(1, 5), Rat(2, 5)}

\* The WaterTreatmentWorks schema nodes considered.
WtwNodes ==
    [name : {"wtw1"},
     loss_factor : {None, Some(Literal(Rat(0, 1))), Some(Literal(WtwLossFactor)),
                    Some(Literal(Rat(1, 5))), Some(ParameterRef("lf"))},
     min_flow : {None, Some(Literal(2))},
     max_flow : {None, Some(Literal(5)), Some(Literal(WtwMaxFlow))},
     soft_min_flow : {None, Some(Literal(3))},
     soft_min_flow_cost : {None, Some(Literal(-1))},
     cost : {None, Some(Literal(1))}]

\* The node of model_str: max_flow 10, loss_factor 0.1, nothing else.
S1Wtw ==
    [name |-> "wtw1", loss_factor |-> Some(Literal(WtwLossFactor)),
     min_flow |-> None, max_flow |-> Some(Literal(WtwMaxFlow)),
     soft_min_flow |-> None, soft_min_flow_cost |-> None, cost |-> None]

loss_sub_name == Some("loss")
net_sub_name == Some("net")
agg_sub_name == Some("agg")
net_soft_min_flow_sub_name == Some("net_soft_min_flow")
net_above_soft_min_flow_sub_name == Some("net_above_soft_min_flow")

----------------------------------------------------------------------------
\* The core model (pywr_core::model::Model): what the schema nodes call.

EmptyModel == [nodes |-> << >>, edges |-> << >>, aggregated_nodes |-> << >>,
               parameters |-> << >>]

NewNode(name, sub_name, kind) ==
    [name |-> name, sub_name |-> sub_name, kind |-> kind,
     min_flow |-> None, max_flow |-> None, cost |-> None]

add_node(model, name, sub_name, kind) ==
    [model EXCEPT !.nodes = Append(@, NewNode(name, sub_name, kind))]

add_input_node(model, name, sub_name) == add_node(model, name, sub_name, "Input")
add_link_node(model, name, sub_name) == add_node(model, name, sub_name, "Link")
add_output_node(model, name, sub_name) == add_node(model, name, sub_name, "Output")

\* The index add_*_node returned for the node it has just added.
last_node(model) == Len(model.nodes)

connect_nodes(model, from, to) ==
    [model EXCEPT !.edges = Append(@, <<from, to>>)]

add_aggregated_node(model, name, sub_name, nodes, factors) ==
    [model EXCEPT !.aggregated_nodes =
        Append(@, [name |-> name, sub_name |-> sub_name, nodes |-> nodes,
                   factors |-> factors])]

get_node_index_by_name(model, name, sub_name) ==
    CHOOSE i \in 1..Len(model.nodes) :
        model.nodes[i].name = name /\ model.nodes[i].sub_name = sub_name

has_node(model, name, sub_name) ==
    \E i \in 1..Len(model.nodes) :
        model.nodes[i].name = name /\ model.nodes[i].sub_name = sub_name

set_node_attr(model, name, sub_name, attr, value) ==
    LET i == get_node_index_by_name(model, name, sub_name)
    IN [model EXCEPT !.nodes[i][attr] = Some(value)]

set_node_cost(model, name, sub_name, value) ==
    set_node_attr(model, name, sub_name, "cost", value)
set_node_max_flow(model, name, sub_name, value) ==
    set_node_attr(model, name, sub_name, "max_flow", value)
set_node_min_flow(model, name, sub_name, value) ==
    set_node_attr(model, name, sub_name, "min_flow", value)

set_aggregated_node_factors(model, name, sub_name, factors) ==
    LET i == CHOOSE k \in 1..Len(model.aggregated_nodes) :
                 /\ model.aggregated_nodes[k].name = name
                 /\ model.aggregated_nodes[k].sub_name = sub_name
    IN [model EXCEPT !.aggregated_nodes[i].factors = factors]

\* DynamicFloatValue::load: a literal loads as Metric::Constant; a parameter
\* reference loads as Metric::ParameterValue of the parameter's index, the
\* parameter being added to the model when it is not there yet. The result is
\* the pair of the metric and the model.
load(value, model) ==
    IF value.dynamic = "Constant"
    THEN [metric |-> Constant(value.value), model |-> model]
    ELSE IF \E i \in 1..Len(model.parameters) : model.parameters[i] = value.name
         THEN [metric |-> ParameterValue(
                   CHOOSE i \in 1..Len(model.parameters) : model.parameters[i] = value.name),
               model |-> model]
         ELSE [metric |-> ParameterValue(Len(model.parameters) + 1),
               model |-> [model EXCEPT !.parameters = Append(@, value.name)]]

----------------------------------------------------------------------------
\* The WaterTreatmentWorks schema node.

\* A slip in add_to_model: the loss node and the aggregated node are created
\* whether or not a loss factor is given.
WaterTreatmentWorks_add_to_model_always_loss(self, model) ==
    LET m1 == add_link_node(model, self.name, net_sub_name)
        idx_net == last_node(m1)
        m2 == add_link_node(m1, self.name, net_soft_min_flow_sub_name)
        idx_soft_min_flow == last_node(m2)
        m3 == add_link_node(m2, self.name, net_above_soft_min_flow_sub_name)
        idx_above_soft_min_flow == last_node(m3)
        m4 == connect_nodes(m3, idx_net, idx_soft_min_flow)
        m5 == connect_nodes(m4, idx_net, idx_above_soft_min_flow)
        m6 == add_output_node(m5, self.name, loss_sub_name)
        idx_loss == last_node(m6)
    IN add_aggregated_node(m6, self.name, agg_sub_name, <<idx_net, idx_loss>>, None)

\* WaterTreatmentWorks::add_to_model
WaterTreatmentWorks_add_to_model(self, model) ==
    LET m1 == add_link_node(model, self.name, net_sub_name)
        idx_net == last_node(m1)
        m2 == add_link_node(m1, self.name, net_soft_min_flow_sub_name)
        idx_soft_min_flow == last_node(m2)
        m3 == add_link_node(m2, self.name, net_above_soft_min_flow_sub_name)
        idx_above_soft_min_flow == last_node(m3)
        \* Create the internal connections
        m4 == connect_nodes(m3, idx_net, idx_soft_min_flow)
        m5 == connect_nodes(m4, idx_net, idx_above_soft_min_flow)
    IN IF self.loss_factor.some
       THEN LET m6 == add_output_node(m5, self.name, loss_sub_name)
                idx_loss == last_node(m6)
            IN add_aggregated_node(m6, self.name, agg_sub_name,
                                   <<idx_net, idx_loss>>, None)
       ELSE m5

\* f.is_zero() of a loaded constant.
is_zero(f) == f.num = 0

Ratio(factors) == [kind |-> "Ratio", factors |-> factors]

\* A set_constraints that installs the constant zero like any other constant.
LossFactorsZeroKept(metric) == Some(Ratio(<<Constant(Rat(1, 1)), metric>>))

\* A slip in set_constraints: the two Ratio factors the other way round.
LossFactorsSwapped(metric) ==
    LET lf == IF metric.type = "Constant"
              THEN IF is_zero(metric.value) THEN None ELSE Some(Constant(metric.value))
              ELSE Some(metric)
    IN IF lf.some
       THEN Some(Ratio(<<lf.value, Constant(Rat(1, 1))>>))
       ELSE None

\* The factors set_constraints installs for a loaded loss factor metric:
\* none for the constant zero, Ratio [1.0, lf] otherwise.
LossFactors(metric) ==
    LET lf == IF metric.type = "Constant"
              THEN IF is_zero(metric.value) THEN None ELSE Some(Constant(metric.value))
              ELSE Some(metric)
    IN IF lf.some
       THEN Some(Ratio(<<Constant(Rat(1, 1)), lf.value>>))
       ELSE None

\* WaterTreatmentWorks::set_constraints
WaterTreatmentWorks_set_constraints(self, model) ==
    LET m1 == IF self.cost.some
              THEN LET l == load(self.cost.value, model)
                   IN set_node_cost(l.model, self.name, net_sub_name, l.metric)
              ELSE model
        m2 == IF self.max_flow.some
              THEN LET l == load(self.max_flow.value, m1)
                   IN set_node_max_flow(l.model, self.name, net_sub_name, l.metric)
              ELSE m1
        m3 == IF self.min_flow.some
              THEN LET l == load(self.min_flow.value, m2)
                   IN set_node_min_flow(l.model, self.name, net_sub_name, l.metric)
              ELSE m2
        \* soft min flow constraints
        m4 == IF self.soft_min_flow_cost.some
              THEN LET l == load(self.soft_min_flow_cost.value, m3)
                   IN set_node_cost(l.model, self.name, net_soft_min_flow_sub_name, l.metric)
              ELSE m3
        m5 == IF self.soft_min_flow.some
              THEN LET l == load(self.soft_min_flow.value, m4)
                   IN set_node_max_flow(l.model, self.name, net_soft_min_flow_sub_name, l.metric)
              ELSE m4
    IN IF self.loss_factor.some
       THEN LET l == load(self.loss_factor.value, m5)
                factors == LossFactors(l.metric)
            IN IF factors.some
               THEN set_aggregated_node_factors(l.model, self.name, agg_sub_name, factors)
               ELSE l.model
       ELSE m5

\* An input_connectors that offers the loss node whether it was created or not.
WaterTreatmentWorks_input_connectors_always_loss(self) ==
    << <<self.name, net_sub_name>>, <<self.name, loss_sub_name>> >>

\* A slip in input_connectors: the loss node is never offered to upstream edges.
WaterTreatmentWorks_input_connectors_net_only(self) ==
    <<  <<self.name, net_sub_name>> >>

\* WaterTreatmentWorks::input_connectors
WaterTreatmentWorks_input_connectors(self) ==
    <<  <<self.name, net_sub_name>> >>
    \o (IF self.loss_factor.some THEN << <<self.name, loss_sub_name>> >> ELSE << >>)

\* WaterTreatmentWorks::output_connectors
WaterTreatmentWorks_output_connectors(self) ==
    << <<self.name, net_soft_min_flow_sub_name>>,
       <<self.name, net_above_soft_min_flow_sub_name>> >>

----------------------------------------------------------------------------
\* Building the model of model_str: nodes input1, wtw1, demand1 and the
\* schema edges input1 -> wtw1 and wtw1 -> demand1.

\* The connectors of the plain Input and Output nodes: the node itself.
SimpleConnectors(name) == << <<name, None>> >>

\* One core edge per pair of an output connector of the schema edge's source
\* and an input connector of its target.
ConnectAll(model, froms, tos) ==
    LET pairs == [k \in 1..(Len(froms) * Len(tos)) |->
                    << froms[((k - 1) \div Len(tos)) + 1], tos[((k - 1) % Len(tos)) + 1] >>]
        new == [k \in 1..Len(pairs) |->
                    << get_node_index_by_name(model, pairs[k][1][1], pairs[k][1][2]),
                       get_node_index_by_name(model, pairs[k][2][1], pairs[k][2][2]) >>]
    IN [model EXCEPT !.edges = @ \o new]

\* The grid holds the optimum of the step's linear program: the loss
\* factor times the largest net flow is a whole number of flow units.
Min(a, b) == IF a <= b THEN a ELSE b

NetCapacity(node) ==
    IF node.max_flow.some THEN Min(node.max_flow.value.value, DemandMaxFlow)
    ELSE DemandMaxFlow

LossValues(node) ==
    IF ~node.loss_factor.some THEN {}
    ELSE IF node.loss_factor.value.dynamic = "Constant"
         THEN {node.loss_factor.value.value}
         ELSE LossParamValues

LossOnGrid(node) ==
    \A v \in LossValues(node) : (NetCapacity(node) * v.num) % v.den = 0

\* The schema nodes a run starts from: min_flow and cost are given together,
\* and so are soft_min_flow and soft_min_flow_cost.
WtwStartNodes ==
    {node \in WtwNodes :
        /\ LossOnGrid(node)
        /\ node.min_flow.some = node.cost.some
        /\ node.soft_min_flow.some = node.soft_min_flow_cost.some}

WtwInit ==
    /\ wtwPc = "input"
    /\ wtwNode \in WtwStartNodes
    /\ wtwModel = EmptyModel
    /\ wtwT = 0
    /\ wtwParam = None
    /\ wtwFlows = << >>
    /\ wtwIn = << >>
    /\ wtwOut = << >>
    /\ wtwSolver = << >>

\* InputNode::add_to_model for input1.
WtwAddInput ==
    /\ wtwPc = "input"
    /\ wtwModel' = add_input_node(wtwModel, "input1", None)
    /\ wtwPc' = "wtw"
    /\ UNCHANGED <<wtwNode, wtwT, wtwParam, wtwFlows, wtwIn, wtwOut, wtwSolver>>

\* WaterTreatmentWorks::add_to_model for wtw1.
WtwAddToModel ==
    /\ wtwPc = "wtw"
    /\ wtwModel' = WaterTreatmentWorks_add_to_model(wtwNode, wtwModel)
    /\ wtwPc' = "demand"
    /\ UNCHANGED <<wtwNode, wtwT, wtwParam, wtwFlows, wtwIn, wtwOut, wtwSolver>>

\* OutputNode::add_to_model for demand1.
WtwAddDemand ==
    /\ wtwPc = "demand"
    /\ wtwModel' = add_output_node(wtwModel, "demand1", None)
    /\ wtwPc' = "edges"
    /\ UNCHANGED <<wtwNode, wtwT, wtwParam, wtwFlows, wtwIn, wtwOut, wtwSolver>>

\* The two schema edges, connected through the nodes' connectors.
WtwConnectEdges ==
    /\ wtwPc = "edges"
    /\ wtwModel' =
         ConnectAll(
            ConnectAll(wtwModel, SimpleConnectors("input1"),
                       WaterTreatmentWorks_input_connectors(wtwNode)),
            WaterTreatmentWorks_output_connectors(wtwNode),
            SimpleConnectors("demand1"))
    /\ wtwPc' = "constraints"
    /\ UNCHANGED <<wtwNode, wtwT, wtwParam, wtwFlows, wtwIn, wtwOut, wtwSolver>>

\* WaterTreatmentWorks::set_constraints for wtw1.
WtwSetConstraints ==
    /\ wtwPc = "constraints"
    /\ wtwModel' = WaterTreatmentWorks_set_constraints(wtwNode, wtwModel)
    /\ wtwPc' = "demand_constraints"
    /\ UNCHANGED <<wtwNode, wtwT, wtwParam, wtwFlows, wtwIn, wtwOut, wtwSolver>>

\* OutputNode::set_constraints for demand1: max_flow 15, cost -10.
WtwSetDemandConstraints ==
    /\ wtwPc = "demand_constraints"
    /\ wtwModel' =
         set_node_cost(
            set_node_max_flow(wtwModel, "demand1", None, Constant(DemandMaxFlow)),
            "demand1", None, Constant(DemandCost))
    /\ wtwPc' = "setup"
    /\ UNCHANGED <<wtwNode, wtwT, wtwParam, wtwFlows, wtwIn, wtwOut, wtwSolver>>

----------------------------------------------------------------------------
\* One timestep: the parameters are computed, the linear program of the
\* network is solved, and the flows are committed to the state.

RECURSIVE Sum(_, _)
\* The sum of f over the set S.
Sum(f, S) ==
    IF S = {} THEN 0
    ELSE LET x == CHOOSE y \in S : TRUE IN f[x] + Sum(f, S \ {x})

RECURSIVE Dot(_, _, _)
\* The sum of x[i] * w[i] over i in 1..k.
Dot(x, w, k) == IF k = 0 THEN 0 ELSE x[k] * w[k] + Dot(x, w, k - 1)

RECURSIVE Concat(_)
\* The concatenation of a sequence of sequences.
Concat(ss) == IF ss = << >> THEN << >> ELSE Head(ss) \o Concat(Tail(ss))

\* The edges leaving node n, in insertion order.
RECURSIVE EdgesFrom(_, _)
EdgesFrom(edges, n) ==
    IF edges = << >> THEN << >>
    ELSE (IF Head(edges)[1] = n THEN <<Head(edges)>> ELSE << >>) \o EdgesFrom(Tail(edges), n)

RECURSIVE RoutesFrom(_, _)
\* The routes (node sequences) from node n to an output node.
RoutesFrom(model, n) ==
    IF model.nodes[n].kind = "Output" THEN << <<n>> >>
    ELSE LET out == EdgesFrom(model.edges, n)
         IN Concat([k \in 1..Len(out) |->
                LET rest == RoutesFrom(model, out[k][2])
                IN [i \in 1..Len(rest) |-> <<n>> \o rest[i]]])

\* Every route from an input node to an output node: a flow that conserves
\* mass at every link node is a sum of flows along these routes.
Routes(model) ==
    Concat([n \in 1..Len(model.nodes) |->
        IF model.nodes[n].kind = "Input" THEN RoutesFrom(model, n) ELSE << >>])

OnRoute(r, n) == \E k \in 1..Len(r) : r[k] = n
UsesEdge(r, edge) == \E k \in 1..(Len(r) - 1) : r[k] = edge[1] /\ r[k + 1] = edge[2]

\* The current value of a metric a constraint or factor holds.
WtwMetricValue(metric, param) ==
    IF metric.type = "Constant" THEN metric.value ELSE param.value

\* Node flow bounds: min_flow <= flow <= max_flow, an absent bound being
\* unbounded. flow[n] is the flow through node n.
WithinBounds(model, flow, param) ==
    \A n \in 1..Len(model.nodes) :
        LET node == model.nodes[n]
        IN /\ node.min_flow.some => flow[n] >= WtwMetricValue(node.min_flow.value, param)
           /\ node.max_flow.some => flow[n] <= WtwMetricValue(node.max_flow.value, param)

\* Factor rows: for Ratio factors, flow_i * f_j = flow_j * f_i for the
\* members of every aggregated node that has factors.
FactorRows(model, flow, param) ==
    \A a \in 1..Len(model.aggregated_nodes) :
        LET agg == model.aggregated_nodes[a]
        IN agg.factors.some =>
            \A i, j \in 1..Len(agg.nodes) :
                LET fi == WtwMetricValue(agg.factors.value.factors[i], param)
                    fj == WtwMetricValue(agg.factors.value.factors[j], param)
                IN flow[agg.nodes[i]] * fj.num * fi.den
                     = flow[agg.nodes[j]] * fi.num * fj.den

\* The objective: the sum of cost * flow over the nodes.
Objective(model, flow, param) ==
    LET c == [n \in 1..Len(model.nodes) |->
                 IF model.nodes[n].cost.some
                 THEN WtwMetricValue(model.nodes[n].cost.value, param)
                 ELSE 0]
    IN Dot(flow, c, Len(model.nodes))

\* The most a route can carry: flows are not negative, so a route carries no
\* more than the constant max_flow of any node on it, and no more than the
\* grid holds.
RouteCap(model, r) ==
    LET caps == {model.nodes[r[k]].max_flow.value.value :
                    k \in {i \in 1..Len(r) :
                            /\ model.nodes[r[i]].max_flow.some
                            /\ model.nodes[r[i]].max_flow.value.type = "Constant"}}
    IN IF \E c \in caps : c < MaxFlow
       THEN CHOOSE c \in caps : \A d \in caps : c <= d
       ELSE MaxFlow

\* The optimal solutions of the step's linear program on the grid, each the
\* sequence of the edge flows. A candidate gives every route a whole flow;
\* the flow through a node (along an edge) is the sum over the routes
\* through it.
OptimalFlows(model, param) ==
    LET routes == Routes(model)
        K == Len(routes)
        through == [n \in 1..Len(model.nodes) |->
                       [k \in 1..K |-> IF OnRoute(routes[k], n) THEN 1 ELSE 0]]
        along == [e \in 1..Len(model.edges) |->
                       [k \in 1..K |-> IF UsesEdge(routes[k], model.edges[e]) THEN 1 ELSE 0]]
        cap == [k \in 1..K |-> RouteCap(model, routes[k])]
        grid == {x \in [1..K -> 0..MaxFlow] : \A k \in 1..K : x[k] <= cap[k]}
        NodeFlows(x) == [n \in 1..Len(model.nodes) |-> Dot(x, through[n], K)]
        feasible == {x \in grid :
                        LET flow == NodeFlows(x)
                        IN FactorRows(model, flow, param) /\ WithinBounds(model, flow, param)}
        Cost(x) == Objective(model, NodeFlows(x), param)
        costs == {Cost(x) : x \in feasible}
        best == CHOOSE c \in costs : \A d \in costs : c <= d
    IN {[e \in 1..Len(model.edges) |-> Dot(x, along[e], K)] :
            x \in {y \in feasible : Cost(y) = best}}

\* The values the parameters of a model may be computed to in a step.
ParamChoices(model) ==
    IF model.parameters = << >> THEN {None}
    ELSE {Some(v) : v \in LossParamValues}

\* Solver setup, once the model is built: the step's program is prepared for
\* every value the parameters can take.
WtwSolverSetup ==
    /\ wtwPc = "setup"
    /\ wtwSolver' = [param \in ParamChoices(wtwModel) |-> OptimalFlows(wtwModel, param)]
    /\ wtwPc' = "run"
    /\ UNCHANGED <<wtwNode, wtwModel, wtwT, wtwParam, wtwFlows, wtwIn, wtwOut>>

\* Model::step: compute the parameters, solve, commit the flows.
WtwStep ==
    /\ wtwPc = "run"
    /\ wtwT < WtwMaxSteps
    /\ \E param \in ParamChoices(wtwModel) :
        \E flows \in wtwSolver[param] :
            /\ wtwParam' = param
            /\ wtwFlows' = flows
            /\ wtwIn' = [n \in 1..Len(wtwModel.nodes) |->
                            Sum(wtwFlows', {e \in 1..Len(wtwModel.edges) :
                                              wtwModel.edges[e][2] = n})]
            /\ wtwOut' = [n \in 1..Len(wtwModel.nodes) |->
                            Sum(wtwFlows', {e \in 1..Len(wtwModel.edges) :
                                              wtwModel.edges[e][1] = n})]
    /\ wtwT' = wtwT + 1
    /\ UNCHANGED <<wtwPc, wtwNode, wtwModel, wtwSolver>>

WtwNext ==
    \/ WtwAddInput
    \/ WtwAddToModel
    \/ WtwAddDemand
    \/ WtwConnectEdges
    \/ WtwSetConstraints
    \/ WtwSetDemandConstraints
    \/ WtwSolverSetup
    \/ WtwStep

WtwIdle ==
    /\ wtwPc = "idle"
    /\ wtwNode = None
    /\ wtwModel = EmptyModel
    /\ wtwT = 0
    /\ wtwParam = None
    /\ wtwFlows = << >>
    /\ wtwIn = << >>
    /\ wtwOut = << >>
    /\ wtwSolver = << >>

(***************************************************************************)
(* Parameter scheduling: before(), compute() and reads within a timestep   *)
(***************************************************************************)
\* Number of timesteps of a run.
SchedMaxSteps == 2

\* ParameterType: a parameter is a scalar parameter or an index parameter.
ParameterKinds == {"Parameter", "Index"}

\* A network's parameters: kinds[p] is the kind of parameter p and deps[p]
\* the parameters whose values p's compute() reads from the parameter state.
SchedNetwork(kinds, deps) == [kinds |-> kinds, deps |-> deps]

\* The parameter networks considered: a chain, a diamond, an index parameter
\* that reads a scalar one added after it, a scalar one that reads an index
\* parameter, and parameters that read nothing.
SchedNetworks ==
    { SchedNetwork(<<"Parameter", "Parameter", "Parameter">>, <<{}, {1}, {2}>>),
      SchedNetwork(<<"Parameter", "Parameter", "Parameter", "Parameter">>,
                   <<{}, {1}, {1}, {2, 3}>>),
      SchedNetwork(<<"Index", "Parameter", "Index">>, <<{2}, {}, {1}>>),
      SchedNetwork(<<"Parameter", "Index", "Index">>, <<{2, 3}, {}, {}>>),
      SchedNetwork(<<"Parameter", "Index", "Parameter">>, <<{3}, {1}, {}>>),
      SchedNetwork(<<"Index", "Parameter">>, <<{}, {}>>) }

\* The orderings of the parameters of net.
Orderings(net) ==
    LET n == Len(net.kinds)
    IN {o \in [1..n -> 1..n] : \A i, j \in 1..n : i # j => o[i] # o[j]}

\* The position of parameter p in the order o.
PositionIn(o, p) == CHOOSE i \in 1..Len(o) : o[i] = p

\* An order that puts the index parameters first and the scalar parameters
\* after them, each kind sorted topologically among its own.
KindGroupedOrders(net) ==
    {o \in Orderings(net) :
        /\ \A p \in 1..Len(o) : \A d \in net.deps[p] :
               net.kinds[d] = net.kinds[p] => PositionIn(o, d) < PositionIn(o, p)
        /\ \A p, q \in 1..Len(o) :
               (net.kinds[p] = "Index" /\ net.kinds[q] = "Parameter")
                   => PositionIn(o, p) < PositionIn(o, q)}

\* The topological orders of the dependency graph: every parameter comes
\* after the parameters it reads, whatever their kinds.
TopologicalOrders(net) ==
    {o \in Orderings(net) :
        \A p \in 1..Len(o) : \A d \in net.deps[p] : PositionIn(o, d) < PositionIn(o, p)}

\* The calls and reads a step logs.
BeforeCall(p) == [op |-> "before", param |-> p, by |-> 0]
ComputeCall(p) == [op |-> "compute", param |-> p, by |-> 0]
\* Parameter p's value is read by parameter `by`; reader 0 is the LP refresh.
Read(p, by) == [op |-> "read", param |-> p, by |-> by]

\* The sequence of the elements of the set S of numbers, ascending.
RECURSIVE Ascending(_)
Ascending(S) ==
    IF S = {} THEN << >>
    ELSE LET m == CHOOSE x \in S : \A y \in S : x <= y
         IN <<m>> \o Ascending(S \ {m})

SchedInit ==
    /\ schedNet \in SchedNetworks
    /\ schedOrder = << >>
    /\ schedT = 0
    /\ schedPc = [s \in Scenarios |-> "build"]
    /\ schedPos = [s \in Scenarios |-> 0]
    /\ schedLog = [s \in Scenarios |-> << >>]
    /\ schedPrev = [s \in Scenarios |-> << >>]

\* freeze: the evaluation order is determined, once.
SchedFreeze ==
    /\ \A s \in Scenarios : schedPc[s] = "build"
    /\ schedOrder' \in TopologicalOrders(schedNet)
    /\ schedPc' = [s \in Scenarios |-> "done"]
    /\ UNCHANGED <<schedNet, schedT, schedPos, schedLog, schedPrev>>

\* The driver moves to the next timestep once every scenario has finished
\* the current one.
SchedNextTimestep ==
    /\ \A s \in Scenarios : schedPc[s] = "done"
    /\ schedT < SchedMaxSteps
    /\ schedT' = schedT + 1
    /\ schedPc' = [s \in Scenarios |-> "wait"]
    /\ UNCHANGED <<schedNet, schedOrder, schedPos, schedLog, schedPrev>>

\* The compute calls of a log, in order.
RECURSIVE Computed(_)
Computed(log) ==
    IF log = << >> THEN << >>
    ELSE (IF Head(log).op = "compute" THEN <<Head(log).param>> ELSE << >>)
         \o Computed(Tail(log))

\* Scenario s starts the timestep: before() is called on every parameter.
SchedBefore(s) ==
    /\ schedPc[s] = "wait"
    /\ schedPrev' = [schedPrev EXCEPT ![s] = Computed(schedLog[s])]
    /\ schedLog' = [schedLog EXCEPT ![s] =
                       [p \in 1..Len(schedNet.kinds) |-> BeforeCall(p)]]
    /\ schedPos' = [schedPos EXCEPT ![s] = 0]
    /\ schedPc' = [schedPc EXCEPT ![s] = "compute"]
    /\ UNCHANGED <<schedNet, schedOrder, schedT>>

\* Scenario s computes the next parameter of the order: compute() reads the
\* values of its dependencies from the parameter state and returns its own.
SchedCompute(s) ==
    /\ schedPc[s] = "compute"
    /\ schedPos[s] < Len(schedOrder)
    /\ LET p == schedOrder[schedPos[s] + 1]
           deps == Ascending(schedNet.deps[p])
       IN schedLog' = [schedLog EXCEPT ![s] =
                          @ \o [k \in 1..Len(deps) |-> Read(deps[k], p)]
                            \o <<ComputeCall(p)>>]
    /\ schedPos' = [schedPos EXCEPT ![s] = @ + 1]
    /\ schedPc' = [schedPc EXCEPT ![s] =
                      IF schedPos[s] + 1 = Len(schedOrder) THEN "refresh" ELSE "compute"]
    /\ UNCHANGED <<schedNet, schedOrder, schedT, schedPrev>>

\* Scenario s refreshes the LP from the network and the state: the values of
\* the parameters are read.
SchedRefresh(s) ==
    /\ schedPc[s] = "refresh"
    /\ schedLog' = [schedLog EXCEPT ![s] =
                       @ \o [p \in 1..Len(schedNet.kinds) |-> Read(p, 0)]]
    /\ schedPc' = [schedPc EXCEPT ![s] = "done"]
    /\ UNCHANGED <<schedNet, schedOrder, schedT, schedPos, schedPrev>>

SchedIdle ==
    /\ schedNet = SchedNetwork(<< >>, << >>)
    /\ schedOrder = << >>
    /\ schedT = 0
    /\ schedPc = [s \in Scenarios |-> "idle"]
    /\ schedPos = [s \in Scenarios |-> 0]
    /\ schedLog = [s \in Scenarios |-> << >>]
    /\ schedPrev = [s \in Scenarios |-> << >>]

(***************************************************************************)
(* Metric::get_value                                                       *)
(***************************************************************************)
\* Largest value a flow, a volume or a parameter value of the state takes.
MetMaxValue == 1

\* Number of calls of get_value in a run.
MetMaxEvals == 2

\* f64 values: the rational num/den in lowest terms with den > 0, and, with
\* den = 0, +inf (num 1), -inf (num -1) and NaN (num 0).
Sign(n) == IF n > 0 THEN 1 ELSE IF n < 0 THEN -1 ELSE 0
Abs(n) == IF n < 0 THEN -n ELSE n

RECURSIVE GCD(_, _)
GCD(a, b) == IF b = 0 THEN a ELSE GCD(b, a % b)

Norm(n, d) ==
    IF d = 0 THEN Rat(Sign(n), 0)
    ELSE LET g == GCD(Abs(n), Abs(d))
         IN Rat((Sign(d) * n) \div g, Abs(d) \div g)

F(v) == Rat(v, 1)
NaN == Rat(0, 0)

FNeg(a) == Rat(-a.num, a.den)

FAdd(a, b) ==
    IF a.den = 0 /\ b.den = 0
    THEN IF a.num = b.num THEN a ELSE NaN
    ELSE IF a.den = 0 THEN a
    ELSE IF b.den = 0 THEN b
    ELSE Norm(a.num * b.den + b.num * a.den, a.den * b.den)

FSub(a, b) == FAdd(a, FNeg(b))

FMul(a, b) == Norm(a.num * b.num, a.den * b.den)

FDiv(a, b) ==
    IF b.den = 0 THEN (IF b.num = 0 \/ a.den = 0 THEN NaN ELSE F(0))
    ELSE IF b.num = 0 THEN Rat(Sign(a.num), 0)
    ELSE Norm(Sign(b.num) * a.num * b.den, a.den * Abs(b.num))

FLess(a, b) == a.num * b.den < b.num * a.den

\* The variants of Metric (Constant and ParameterValue are given above).
NodeInFlow(idx) == [type |-> "NodeInFlow", idx |-> idx]
NodeOutFlow(idx) == [type |-> "NodeOutFlow", idx |-> idx]
NodeVolume(idx) == [type |-> "NodeVolume", idx |-> idx]
NodeInFlowDeficit(idx) == [type |-> "NodeInFlowDeficit", idx |-> idx]
NodeProportionalVolume(idx) == [type |-> "NodeProportionalVolume", idx |-> idx]
AggregatedNodeInFlow(idx) == [type |-> "AggregatedNodeInFlow", idx |-> idx]
AggregatedNodeOutFlow(idx) == [type |-> "AggregatedNodeOutFlow", idx |-> idx]
AggregatedNodeVolume(idx) == [type |-> "AggregatedNodeVolume", idx |-> idx]
AggregatedNodeProportionalVolume(idx) ==
    [type |-> "AggregatedNodeProportionalVolume", idx |-> idx]
EdgeFlow(idx) == [type |-> "EdgeFlow", idx |-> idx]
MultiParameterValue(idx, key) == [type |-> "MultiParameterValue", idx |-> idx, key |-> key]
VirtualStorageVolume(idx) == [type |-> "VirtualStorageVolume", idx |-> idx]
VirtualStorageProportionalVolume(idx) ==
    [type |-> "VirtualStorageProportionalVolume", idx |-> idx]
MultiNodeInFlow(indices) == [type |-> "MultiNodeInFlow", indices |-> indices]

\* VolumeBetweenControlCurves::new
VolumeBetweenControlCurves(max_volume, upper, lower) ==
    [type |-> "VolumeBetweenControlCurves", max_volume |-> max_volume,
     upper |-> upper, lower |-> lower]

----------------------------------------------------------------------------
\* The State accessors and the Network lookups get_value calls. An index
\* that names nothing is an error.

InRange(idx, seq) == idx \in 1..Len(seq)

get_node_in_flow(state, idx) ==
    IF InRange(idx, state.node_in_flows) THEN Ok(F(state.node_in_flows[idx]))
    ELSE Err("NodeIndexNotFound")

get_node_out_flow(state, idx) ==
    IF InRange(idx, state.node_out_flows) THEN Ok(F(state.node_out_flows[idx]))
    ELSE Err("NodeIndexNotFound")

get_node_volume(state, idx) ==
    IF InRange(idx, state.node_volumes) THEN Ok(F(state.node_volumes[idx]))
    ELSE Err("NodeIndexNotFound")

\* Proportional volume: volume / max_volume, and 0 when max_volume is 0.
get_node_proportional_volume(state, idx, max_volume) ==
    IF ~InRange(idx, state.node_volumes) THEN Err("NodeIndexNotFound")
    ELSE IF max_volume.num = 0 /\ max_volume.den # 0 THEN Ok(F(0))
    ELSE Ok(FDiv(F(state.node_volumes[idx]), max_volume))

get_edge_flow(state, idx) ==
    IF InRange(idx, state.edge_flows) THEN Ok(F(state.edge_flows[idx]))
    ELSE Err("EdgeIndexNotFound")

get_parameter_value(state, idx) ==
    IF InRange(idx, state.parameter_values) THEN Ok(F(state.parameter_values[idx]))
    ELSE Err("ParameterIndexNotFound")

get_multi_parameter_value(state, idx, key) ==
    IF ~InRange(idx, state.multi_parameter_values) THEN Err("MultiValueParameterIndexNotFound")
    ELSE IF key \notin DOMAIN state.multi_parameter_values[idx]
         THEN Err("MultiValueParameterKeyNotFound")
    ELSE Ok(F(state.multi_parameter_values[idx][key]))

get_virtual_storage_volume(state, idx) ==
    IF InRange(idx, state.virtual_storage_volumes)
    THEN Ok(F(state.virtual_storage_volumes[idx]))
    ELSE Err("VirtualStorageIndexNotFound")

get_virtual_storage_proportional_volume(state, idx, max_volume) ==
    IF ~InRange(idx, state.virtual_storage_volumes) THEN Err("VirtualStorageIndexNotFound")
    ELSE IF max_volume.num = 0 /\ max_volume.den # 0 THEN Ok(F(0))
    ELSE Ok(FDiv(F(state.virtual_storage_volumes[idx]), max_volume))

get_node(model, idx) ==
    IF InRange(idx, model.nodes) THEN Ok(model.nodes[idx]) ELSE Err("NodeIndexNotFound")

get_aggregated_node(model, idx) ==
    IF InRange(idx, model.aggregated_nodes) THEN Ok(model.aggregated_nodes[idx])
    ELSE Err("AggregatedNodeIndexNotFound")

get_aggregated_storage_node(model, idx) ==
    IF InRange(idx, model.aggregated_storage_nodes)
    THEN Ok(model.aggregated_storage_nodes[idx])
    ELSE Err("AggregatedStorageNodeIndexNotFound")

get_virtual_storage_node(model, idx) ==
    IF InRange(idx, model.virtual_storage_nodes) THEN Ok(model.virtual_storage_nodes[idx])
    ELSE Err("VirtualStorageIndexNotFound")

\* A sum over members that leaves out the members whose read failed.
RECURSIVE SumResultsSkipErrors(_)
SumResultsSkipErrors(results) ==
    IF results = << >> THEN Ok(F(0))
    ELSE LET rest == SumResultsSkipErrors(Tail(results))
         IN IF ~Head(results).ok THEN rest
            ELSE Ok(FAdd(Head(results).value, rest.value))

\* A slip in a sum over members: only the first member is counted.
SumResultsFirstOnly(results) ==
    IF results = << >> THEN Ok(F(0)) ELSE Head(results)

\* iter.sum::<Result<_, _>>(): the sum of the values, or the first error.
RECURSIVE SumResults(_)
SumResults(results) ==
    IF results = << >> THEN Ok(F(0))
    ELSE IF ~Head(results).ok THEN Head(results)
    ELSE LET rest == SumResults(Tail(results))
         IN IF ~rest.ok THEN rest ELSE Ok(FAdd(Head(results).value, rest.value))

\* A slip in NodeInFlowDeficit: the deficit clamped at zero.
InFlowDeficitClamped(max_flow, flow) ==
    IF FLess(max_flow, flow) THEN F(0) ELSE FSub(max_flow, flow)

\* max_flow - flow
InFlowDeficit(max_flow, flow) == FSub(max_flow, flow)

\* A slip in VolumeBetweenControlCurves: the curves the other way round.
VolumeBetweenSwapped(max_volume, upper, lower) == FMul(max_volume, FSub(lower, upper))

\* max_volume * (upper - lower)
VolumeBetween(max_volume, upper, lower) == FMul(max_volume, FSub(upper, lower))

RECURSIVE get_value(_, _, _)

\* Node::get_current_max_flow: the node's max_flow constraint evaluated
\* against the state.
get_current_max_flow(node, model, state) == get_value(node.max_flow, model, state)

\* Node::get_current_max_volume, VirtualStorage::get_max_volume
get_current_max_volume(node, model, state) == get_value(node.max_volume, model, state)
get_max_volume(node, model, state) == get_value(node.max_volume, model, state)

\* Metric::get_value
get_value(self, model, state) ==
    CASE self.type = "NodeInFlow" -> get_node_in_flow(state, self.idx)
      [] self.type = "NodeOutFlow" -> get_node_out_flow(state, self.idx)
      [] self.type = "NodeVolume" -> get_node_volume(state, self.idx)
      [] self.type = "AggregatedNodeInFlow" ->
            LET node == get_aggregated_node(model, self.idx)
            IN IF ~node.ok THEN node
               ELSE SumResults([k \in 1..Len(node.value) |->
                                   get_node_in_flow(state, node.value[k])])
      [] self.type = "AggregatedNodeOutFlow" ->
            LET node == get_aggregated_node(model, self.idx)
            IN IF ~node.ok THEN node
               ELSE SumResults([k \in 1..Len(node.value) |->
                                   get_node_out_flow(state, node.value[k])])
      [] self.type = "NodeProportionalVolume" ->
            LET node == get_node(model, self.idx)
            IN IF ~node.ok THEN node
               ELSE LET max_volume == get_current_max_volume(node.value, model, state)
                    IN IF ~max_volume.ok THEN max_volume
                       ELSE get_node_proportional_volume(state, self.idx, max_volume.value)
      [] self.type = "EdgeFlow" -> get_edge_flow(state, self.idx)
      [] self.type = "ParameterValue" -> get_parameter_value(state, self.idx)
      [] self.type = "MultiParameterValue" ->
            get_multi_parameter_value(state, self.idx, self.key)
      [] self.type = "VirtualStorageVolume" -> get_virtual_storage_volume(state, self.idx)
      [] self.type = "VirtualStorageProportionalVolume" ->
            LET node == get_virtual_storage_node(model, self.idx)
            IN IF ~node.ok THEN node
               ELSE LET max_volume == get_max_volume(node.value, model, state)
                    IN IF ~max_volume.ok THEN max_volume
                       ELSE get_virtual_storage_proportional_volume(
                                state, self.idx, max_volume.value)
      [] self.type = "Constant" -> Ok(self.value)
      [] self.type = "AggregatedNodeVolume" ->
            LET node == get_aggregated_storage_node(model, self.idx)
            IN IF ~node.ok THEN node
               ELSE SumResults([k \in 1..Len(node.value) |->
                                   get_node_volume(state, node.value[k])])
      [] self.type = "AggregatedNodeProportionalVolume" ->
            LET node == get_aggregated_storage_node(model, self.idx)
            IN IF ~node.ok THEN node
               ELSE LET volume == SumResults([k \in 1..Len(node.value) |->
                                       get_node_volume(state, node.value[k])])
                        max_volume ==
                            SumResults([k \in 1..Len(node.value) |->
                                LET member == get_node(model, node.value[k])
                                IN IF ~member.ok THEN member
                                   ELSE get_current_max_volume(member.value, model, state)])
                    IN IF ~volume.ok THEN volume
                       ELSE IF ~max_volume.ok THEN max_volume
                       \* TODO handle divide by zero
                       ELSE Ok(FDiv(volume.value, max_volume.value))
      [] self.type = "MultiNodeInFlow" ->
            SumResults([k \in 1..Len(self.indices) |->
                           get_node_in_flow(state, self.indices[k])])
      [] self.type = "NodeInFlowDeficit" ->
            LET node == get_node(model, self.idx)
            IN IF ~node.ok THEN node
               ELSE LET flow == get_node_in_flow(state, self.idx)
                    IN IF ~flow.ok THEN flow
                       ELSE LET max_flow == get_current_max_flow(node.value, model, state)
                            IN IF ~max_flow.ok THEN max_flow
                               ELSE Ok(InFlowDeficit(max_flow.value, flow.value))
      [] self.type = "VolumeBetweenControlCurves" ->
            LET max_volume == get_value(self.max_volume, model, state)
            IN IF ~max_volume.ok THEN max_volume
               ELSE LET lower == IF self.lower.some
                                 THEN get_value(self.lower.value, model, state)
                                 ELSE Ok(F(0))
                    IN IF ~lower.ok THEN lower
                       ELSE LET upper == IF self.upper.some
                                         THEN get_value(self.upper.value, model, state)
                                         ELSE Ok(F(1))
                            IN IF ~upper.ok THEN upper
                               \* TODO handle invalid bounds
                               ELSE Ok(VolumeBetween(max_volume.value, upper.value,
                                                     lower.value))

----------------------------------------------------------------------------
\* The network and the states the metrics are evaluated against: two storage
\* nodes, node 1 bounded by parameter 1 and node 2 by constants; one
\* aggregated node over both; aggregated storage nodes over both and over
\* node 1 alone; one virtual storage node; one edge.

MetNode(max_flow, max_volume) == [max_flow |-> max_flow, max_volume |-> max_volume]

MetNetwork ==
    [nodes |-> << MetNode(ParameterValue(1), ParameterValue(1)),
                  MetNode(Constant(F(1)), Constant(F(1))) >>,
     aggregated_nodes |-> << <<1, 2>> >>,
     aggregated_storage_nodes |-> << <<1, 2>>, <<1>> >>,
     virtual_storage_nodes |-> << [max_volume |-> Constant(F(2))] >>]

MetValues == 0..MetMaxValue

\* A stored volume does not exceed the node's current max volume.
MetStates ==
    {state \in
        [node_in_flows : [1..2 -> MetValues],
         node_out_flows : [1..2 -> MetValues],
         node_volumes : [1..2 -> MetValues],
         edge_flows : {<<1>>},
         parameter_values : [1..1 -> MetValues],
         multi_parameter_values : {<< [a |-> 1] >>},
         virtual_storage_volumes : {<<1>>}] :
        /\ state.node_volumes[1] <= state.parameter_values[1]
        /\ state.node_volumes[2] <= 1}

\* The metrics a VolumeBetweenControlCurves is built from.
MetMaxVolumes == {Constant(F(2)), NodeVolume(1), NodeVolume(3)}
MetCurves == {Constant(Rat(1, 2)), ParameterValue(1), NodeVolume(2), ParameterValue(2)}
MetOptionalCurves == {None} \cup {Some(m) : m \in MetCurves}

\* The metrics evaluated: every variant, with indices that name something
\* and indices that do not.
Metrics ==
    {NodeInFlow(i) : i \in 1..3} \cup {NodeOutFlow(i) : i \in 1..3}
    \cup {NodeVolume(i) : i \in 1..3} \cup {NodeInFlowDeficit(i) : i \in 1..3}
    \cup {NodeProportionalVolume(i) : i \in 1..3}
    \cup {AggregatedNodeInFlow(i) : i \in 1..2} \cup {AggregatedNodeOutFlow(i) : i \in 1..2}
    \cup {AggregatedNodeVolume(i) : i \in 1..3}
    \cup {AggregatedNodeProportionalVolume(i) : i \in 1..3}
    \cup {EdgeFlow(i) : i \in 1..2} \cup {ParameterValue(i) : i \in 1..2}
    \cup {MultiParameterValue(1, "a"), MultiParameterValue(1, "b"), MultiParameterValue(2, "a")}
    \cup {VirtualStorageVolume(i) : i \in 1..2}
    \cup {VirtualStorageProportionalVolume(i) : i \in 1..2}
    \cup {MultiNodeInFlow(<<1, 2>>), MultiNodeInFlow(<<2, 3>>)}
    \cup {Constant(F(2)), Constant(Rat(1, 2))}
    \cup {VolumeBetweenControlCurves(m, u, l) :
            m \in MetMaxVolumes, u \in MetOptionalCurves, l \in MetOptionalCurves}

\* A slip: the call consumes the parameter values of the state.
StateAfterCallCleared(state) == [state EXCEPT !.parameter_values = << >>]

\* get_value takes the state by shared reference (&State): the state the
\* caller holds after the call is the state it passed.
StateAfterCall(state) == state

MetInit ==
    /\ metNetwork = MetNetwork
    /\ metState \in MetStates
    /\ metMetric \in Metrics
    /\ metBefore = <<metNetwork, metState>>
    /\ metResults = << >>

\* A caller evaluates the metric against the network and the state.
MetGetValue ==
    /\ Len(metResults) < MetMaxEvals
    /\ metBefore' = <<metNetwork, metState>>
    /\ metResults' = Append(metResults, get_value(metMetric, metNetwork, metState))
    /\ metState' = StateAfterCall(metState)
    /\ UNCHANGED <<metNetwork, metMetric>>

MetIdle ==
    /\ metNetwork = MetNetwork
    /\ metState = << >>
    /\ metMetric = Constant(F(0))
    /\ metBefore = << >>
    /\ metResults = << >>

(***************************************************************************)
(* Parameter::compute                                                      *)
(***************************************************************************)
\* Index of the last timestep of a run.
ParMaxSteps == 3

\* Largest number of entries (rows) of a vector or an array parameter.
ParMaxLen == 2

\* The outcome of a call that panics: the thread unwinds and no Result is
\* returned.
Panic == [ok |-> FALSE, panic |-> TRUE]

\* A timestep: its ordinal index (from 0) and the month of its date.  The
\* timestepper steps by one month from the start date.
Timestep(start, index) ==
    [index |-> index, month |-> ((start - 1 + index) % 12) + 1]

\* The parameter types.
VectorParameter(values) == [type |-> "Vector", values |-> values]
Array1Parameter(array) == [type |-> "Array1", array |-> array]
Array2Parameter(array) == [type |-> "Array2", array |-> array]
MonthlyProfileParameter(values) == [type |-> "MonthlyProfile", values |-> values]
NegativeParameter(metric) == [type |-> "Negative", metric |-> metric]

\* A vector parameter that repeats its last value past the end.
VectorParameter_compute_clamped(self, timestep, scenario_index, state) ==
    IF timestep.index < Len(self.values) THEN Ok(self.values[timestep.index + 1])
    ELSE IF Len(self.values) > 0 THEN Ok(self.values[Len(self.values)])
    ELSE Err("TimestepIndexOutOfRange")

\* self.values.get(timestep.index): Some inside the vector, None outside.
VectorParameter_compute(self, timestep, scenario_index, state) ==
    IF timestep.index < Len(self.values) THEN Ok(self.values[timestep.index + 1])
    ELSE Err("TimestepIndexOutOfRange")

\* self.array[[timestep.index]]: ndarray indexing panics out of bounds.
Array1Parameter_compute(self, timestep, scenario_index, state) ==
    IF timestep.index < Len(self.array) THEN Ok(self.array[timestep.index + 1])
    ELSE Panic

\* self.array[[timestep.index, 0]]: row timestep.index, column 0, whatever
\* the scenario; ndarray indexing panics out of bounds.  The columns of a
\* row are numbered from 1 here, as the scenarios are.
Array2Parameter_compute(self, timestep, scenario_index, state) ==
    IF timestep.index < Len(self.array) /\ 0 < Len(self.array[timestep.index + 1])
    THEN Ok(self.array[timestep.index + 1][0 + 1])
    ELSE Panic

\* self.values[timestep.date.month() as usize] on a [f64; 12]: the month,
\* 1 to 12, is the 0-based index; values[k] of the code is values[k + 1] here.
MonthlyProfileParameter_compute(self, timestep, scenario_index, state) ==
    IF timestep.month < 12 THEN Ok(self.values[timestep.month + 1])
    ELSE Panic

\* A negative parameter that hands the metric's value on as it is.
NegativeParameter_compute_identity(self, timestep, scenario_index, state) ==
    LET x == get_value(self.metric, MetNetwork, state)
    IN IF ~x.ok THEN x ELSE Ok(x.value)

\* let x = self.metric.get_value(state)?; Ok(-x)
NegativeParameter_compute(self, timestep, scenario_index, state) ==
    LET x == get_value(self.metric, MetNetwork, state)
    IN IF ~x.ok THEN x ELSE Ok(FNeg(x.value))

\* Parameter::compute, dispatched on the parameter's type.
compute(self, timestep, scenario_index, state) ==
    CASE self.type = "Vector" -> VectorParameter_compute(self, timestep, scenario_index, state)
      [] self.type = "Array1" -> Array1Parameter_compute(self, timestep, scenario_index, state)
      [] self.type = "Array2" -> Array2Parameter_compute(self, timestep, scenario_index, state)
      [] self.type = "MonthlyProfile" ->
            MonthlyProfileParameter_compute(self, timestep, scenario_index, state)
      [] self.type = "Negative" -> NegativeParameter_compute(self, timestep, scenario_index, state)

\* The values held by vectors and arrays.
ParValues == {F(1), F(2)}

\* Sequences of at most ParMaxLen elements of a set.
ParSeqs(S) == UNION {[1..n -> S] : n \in 0..ParMaxLen}

\* The rows of a two-dimensional array with one column per scenario.
ParRows == [Scenarios -> ParValues]

\* Monthly profiles: the month numbers 1 to 12, and a decreasing profile.
ParProfiles == {[m \in 1..12 |-> F(m)], [m \in 1..12 |-> F(24 - 2 * m)]}

\* The metrics a negative parameter is built on: a flow, a constant, a
\* deficit that may be negative, and a parameter the state does not hold.
ParMetrics ==
    {NodeInFlow(1), Constant(Rat(1, 2)), NodeInFlowDeficit(1), ParameterValue(2)}

\* The states handed to compute.
ParStates ==
    {state \in MetStates :
        /\ state.node_out_flows = [i \in 1..2 |-> 0]
        /\ state.node_volumes = [i \in 1..2 |-> 0]
        /\ state.node_in_flows[2] = 0}

ParParameters ==
    {VectorParameter(v) : v \in ParSeqs(ParValues)}
    \cup {Array1Parameter(a) : a \in ParSeqs(ParValues)}
    \cup {Array2Parameter(a) : a \in ParSeqs(ParRows)}
    \cup {MonthlyProfileParameter(v) : v \in ParProfiles}
    \cup {NegativeParameter(m) : m \in ParMetrics}

ParInit ==
    /\ parParam \in ParParameters
    /\ parState \in [Scenarios -> ParStates]
    /\ parStart \in 1..12
    /\ parT = 0
    /\ parLast = None
    /\ parPc = "run"

\* One timestep: the parameter is computed in every scenario.  A panic in
\* any scenario ends the run.
ParCompute ==
    /\ parPc = "run"
    /\ parT <= ParMaxSteps
    /\ LET timestep == Timestep(parStart, parT)
           results == [s \in Scenarios |-> compute(parParam, timestep, s, parState[s])]
       IN /\ parLast' = Some([timestep |-> timestep, results |-> results])
          /\ parPc' = IF \E s \in Scenarios : results[s] = Panic THEN "aborted" ELSE "run"
    /\ parT' = parT + 1
    /\ UNCHANGED <<parParam, parState, parStart>>

ParIdle ==
    /\ parParam = VectorParameter(<< >>)
    /\ parState = << >>
    /\ parStart = 1
    /\ parT = 0
    /\ parLast = None
    /\ parPc = "run"

(***************************************************************************)
(* VirtualStorageNode                                                      *)
(***************************************************************************)
\* Number of timesteps of a run.
VsMaxSteps == 3

\* Largest flow through a node in a timestep.
VsMaxFlow == 1

\* StorageInitialVolume
Absolute(iv) == [type |-> "Absolute", value |-> iv]
Proportional(pc) == [type |-> "Proportional", value |-> pc]

\* ConstraintValue
Scalar(v) == [type |-> "Scalar", value |-> v]
ConstraintValue_None == [type |-> "None"]

VirtualStorageReset_Never == "Never"

MissingInitialVolume(name) == [kind |-> "MissingInitialVolume", name |-> name]
NodeNotFound(name) == [kind |-> "NodeNotFound", name |-> name]

\* An initial volume chosen with the proportional value first.
VirtualStorageNode_initial_volume_pc_first(self) ==
    IF self.initial_volume_pc.some THEN Ok(Proportional(self.initial_volume_pc.value))
    ELSE IF self.initial_volume.some THEN Ok(Absolute(self.initial_volume.value))
    ELSE Err(MissingInitialVolume(self.name))

\* The initial volume of add_to_model: initial_volume, else
\* initial_volume_pc, else the error.
VirtualStorageNode_initial_volume(self) ==
    IF self.initial_volume.some THEN Ok(Absolute(self.initial_volume.value))
    ELSE IF self.initial_volume_pc.some THEN Ok(Proportional(self.initial_volume_pc.value))
    ELSE Err(MissingInitialVolume(self.name))

\* A load that leaves every absent field unbounded.
VsLoadUnbounded(value, default) ==
    IF value.some THEN Scalar(value.value) ELSE ConstraintValue_None

\* Option<DynamicFloatValue> of a constant, loaded into a ConstraintValue,
\* with the value taken when none is given.
VsLoad(value, default) == IF value.some THEN Scalar(value.value) ELSE default

\* network.get_node_index_by_name(name, None)
Network_get_node_index_by_name(network, name) ==
    IF \E i \in 1..Len(network.nodes) : network.nodes[i] = name
    THEN Ok(CHOOSE i \in 1..Len(network.nodes) : network.nodes[i] = name)
    ELSE Err(NodeNotFound(name))

\* The indices of the named nodes, or the error of the first name not found.
RECURSIVE VsNodeIndices(_, _)
VsNodeIndices(network, names) ==
    IF names = << >> THEN Ok(<< >>)
    ELSE LET head == Network_get_node_index_by_name(network, Head(names))
             tail == VsNodeIndices(network, Tail(names))
         IN IF ~head.ok THEN head
            ELSE IF ~tail.ok THEN tail
            ELSE Ok(<<head.value>> \o tail.value)

\* network.add_virtual_storage_node(name, None, nodes, factors, initial_volume,
\* min_volume, max_volume, reset, None, cost)
add_virtual_storage_node(network, name, nodes, factors, initial_volume, min_volume, max_volume, reset, cost) ==
    [network EXCEPT !.virtual_storage_nodes =
        Append(@, [name |-> name, nodes |-> nodes, factors |-> factors,
                   initial_volume |-> initial_volume, min_volume |-> min_volume,
                   max_volume |-> max_volume, reset |-> reset, cost |-> cost])]

\* VirtualStorageNode::add_to_model: the result and the network after it.
VirtualStorageNode_add_to_model(self, network) ==
    LET initial_volume == VirtualStorageNode_initial_volume(self)
        cost == VsLoad(self.cost, Scalar(F(0)))
        min_volume == VsLoad(self.min_volume, Scalar(F(0)))
        max_volume == VsLoad(self.max_volume, ConstraintValue_None)
        node_idxs == VsNodeIndices(network, self.nodes)
        reset == VirtualStorageReset_Never
    IN IF ~initial_volume.ok
       THEN [result |-> initial_volume, network |-> network]
       ELSE IF ~node_idxs.ok
       THEN [result |-> node_idxs, network |-> network]
       ELSE [result |-> Ok(<< >>),
             network |-> add_virtual_storage_node(network, self.name, node_idxs.value,
                             self.factors, initial_volume.value, min_volume,
                             max_volume, reset, cost)]

\* The factor of the k-th member: 1.0 when no factors are given.
VsFactor(vs, k) == IF vs.factors.some THEN vs.factors.value[k] ELSE F(1)

\* Sum over the members of factor * flow.
RECURSIVE VsWeightedFlow(_, _, _)
VsWeightedFlow(vs, flows, k) ==
    IF k = 0 THEN F(0)
    ELSE FAdd(VsWeightedFlow(vs, flows, k - 1),
              FMul(VsFactor(vs, k), F(flows[vs.nodes[k]])))

\* A volume that grows by the weighted flow.
VsVolumeAfterAdded(vs, volume, flows, dt) ==
    FAdd(volume, FMul(VsWeightedFlow(vs, flows, Len(vs.nodes)), F(dt)))

\* The volume after a step: the weighted flow times the step length is
\* subtracted from the previous volume.
VsVolumeAfter(vs, volume, flows, dt) ==
    FSub(volume, FMul(VsWeightedFlow(vs, flows, Len(vs.nodes)), F(dt)))

\* The volume a virtual storage starts a run with.
VsInitialVolume(vs) ==
    IF vs.initial_volume.type = "Absolute" THEN vs.initial_volume.value
    ELSE FMul(vs.initial_volume.value, vs.max_volume.value)

\* The virtual storage the schema node added: the last of the network.
VsAdded == vsNetwork.virtual_storage_nodes[Len(vsNetwork.virtual_storage_nodes)]

\* The schema nodes: a proportional initial volume comes with a max volume,
\* and factors, when given, are one per member.
VsSchemaNodes ==
    {node \in
        [name : {"vs1"},
         nodes : {<<"a">>, <<"a", "b">>, <<"b", "zz">>},
         factors : {None} \cup {Some(f) : f \in UNION {[1..n -> {F(-1), F(0), F(1)}] : n \in 1..2}},
         max_volume : {None, Some(F(4))},
         min_volume : {None, Some(F(1))},
         cost : {None, Some(F(-2))},
         initial_volume : {None, Some(F(3))},
         initial_volume_pc : {None, Some(Rat(1, 2))}] :
        /\ node.factors.some => Len(node.factors.value) = Len(node.nodes)
        /\ node.initial_volume_pc.some => node.max_volume.some}

\* The networks a node is added to: two real nodes, with or without an
\* earlier virtual storage.
VsNetworks ==
    {[nodes |-> <<"a", "b">>, virtual_storage_nodes |-> << >>],
     add_virtual_storage_node([nodes |-> <<"a", "b">>, virtual_storage_nodes |-> << >>],
         "vs0", <<1>>, None, Absolute(F(1)), Scalar(F(0)), ConstraintValue_None,
         VirtualStorageReset_Never, Scalar(F(0)))}

VsInit ==
    /\ vsPc = "build"
    /\ vsNode \in VsSchemaNodes
    /\ vsNetwork \in VsNetworks
    /\ vsBefore = vsNetwork
    /\ vsResult = None
    /\ vsT = 0
    /\ vsFlows = << >>
    /\ vsVolumes = << >>

\* The schema node is added to the network.
VsAddToModel ==
    /\ vsPc = "build"
    /\ LET r == VirtualStorageNode_add_to_model(vsNode, vsNetwork)
       IN /\ vsResult' = Some(r.result)
          /\ vsNetwork' = r.network
          /\ vsPc' = IF r.result.ok THEN "run" ELSE "failed"
          /\ vsVolumes' = IF r.result.ok
                          THEN <<VsInitialVolume(
                                   r.network.virtual_storage_nodes[
                                       Len(r.network.virtual_storage_nodes)])>>
                          ELSE << >>
    /\ vsBefore' = vsNetwork
    /\ UNCHANGED <<vsNode, vsT, vsFlows>>

\* One timestep of one day: the solve leaves a non-negative flow at every
\* node and the virtual storage is updated; the policy Never resets nothing.
VsStep ==
    /\ vsPc = "run"
    /\ vsT < VsMaxSteps
    /\ \E flows \in [1..Len(vsNetwork.nodes) -> 0..VsMaxFlow] :
          /\ vsFlows' = flows
          /\ vsVolumes' = Append(vsVolumes,
                 VsVolumeAfter(VsAdded, vsVolumes[Len(vsVolumes)], flows, 1))
    /\ vsT' = vsT + 1
    /\ UNCHANGED <<vsPc, vsNode, vsNetwork, vsBefore, vsResult>>

VsIdle ==
    /\ vsPc = "build"
    /\ vsNode = << >>
    /\ vsNetwork = << >>
    /\ vsBefore = << >>
    /\ vsResult = None
    /\ vsT = 0
    /\ vsFlows = << >>
    /\ vsVolumes = << >>

(***************************************************************************)
(* ClpSolverSettingsBuilder                                                *)
(***************************************************************************)
\* Largest thread count handed to threads().
ClpMaxThreads == 3

\* Number of calls made in a run.
ClpMaxCalls == 3

\* impl Default for ClpSolverSettingsBuilder
ClpSolverSettingsBuilder_default == [parallel |-> FALSE, threads |-> 0]

\* A parallel() that also returns the thread count to automatic.
ClpSolverSettingsBuilder_parallel_resetting(self) == [parallel |-> TRUE, threads |-> 0]

\* self.parallel = true
ClpSolverSettingsBuilder_parallel(self) == [self EXCEPT !.parallel = TRUE]

\* self.threads = threads
ClpSolverSettingsBuilder_threads(self, threads) == [self EXCEPT !.threads = threads]

\* ClpSolverSettings { parallel: self.parallel, threads: self.threads }
ClpSolverSettingsBuilder_build(self) == [parallel |-> self.parallel, threads |-> self.threads]

\* impl Default for ClpSolverSettings: ClpSolverSettingsBuilder::default().build()
ClpSolverSettings_default == ClpSolverSettingsBuilder_build(ClpSolverSettingsBuilder_default)

ClpInit ==
    /\ clpBuilder = ClpSolverSettingsBuilder_default
    /\ clpPrev = clpBuilder
    /\ clpCalls = << >>
    /\ clpSettings = None
    /\ clpDefault = None

ClpParallel ==
    /\ Len(clpCalls) < ClpMaxCalls
    /\ clpPrev' = clpBuilder
    /\ clpBuilder' = ClpSolverSettingsBuilder_parallel(clpBuilder)
    /\ clpCalls' = Append(clpCalls, [op |-> "parallel"])
    /\ UNCHANGED <<clpSettings, clpDefault>>

ClpThreads ==
    /\ Len(clpCalls) < ClpMaxCalls
    /\ \E threads \in 0..ClpMaxThreads :
          /\ clpBuilder' = ClpSolverSettingsBuilder_threads(clpBuilder, threads)
          /\ clpCalls' = Append(clpCalls, [op |-> "threads", threads |-> threads])
    /\ clpPrev' = clpBuilder
    /\ UNCHANGED <<clpSettings, clpDefault>>

ClpBuild ==
    /\ Len(clpCalls) < ClpMaxCalls
    /\ clpPrev' = clpBuilder
    /\ clpSettings' = Some(ClpSolverSettingsBuilder_build(clpBuilder))
    /\ clpCalls' = Append(clpCalls, [op |-> "build"])
    /\ UNCHANGED <<clpBuilder, clpDefault>>

\* ClpSolverSettings::default(), which does not touch the builder at hand.
ClpDefault ==
    /\ Len(clpCalls) < ClpMaxCalls
    /\ clpPrev' = clpBuilder
    /\ clpDefault' = Some(ClpSolverSettings_default)
    /\ clpCalls' = Append(clpCalls, [op |-> "default"])
    /\ UNCHANGED <<clpBuilder, clpSettings>>

ClpIdle ==
    /\ clpBuilder = ClpSolverSettingsBuilder_default
    /\ clpPrev = clpBuilder
    /\ clpCalls = << >>
    /\ clpSettings = None
    /\ clpDefault = None

(***************************************************************************)
(* Conversion of v1 nodes                                                  *)
(***************************************************************************)
\* The variants of CoreNodeV1 whose payload is converted with try_into.
ConvertedVariants ==
    {"Input", "Link", "Output", "Storage", "Reservoir", "Catchment", "RiverGauge",
     "LossLink", "River", "RiverSplitWithGauge", "Aggregated", "AggregatedStorage",
     "VirtualStorage", "AnnualVirtualStorage", "PiecewiseLink", "Delay",
     "MonthlyVirtualStorage"}

\* The variants of CoreNodeV1 whose arm is todo!().
TodoVariants ==
    {"MultiSplitLink", "BreakLink", "RiverSplit", "SeasonalVirtualStorage",
     "RollingVirtualStorage"}

ConversionError(name) == [kind |-> "ConversionError", name |-> name]

\* n.try_into() on the payload of a variant: the payload converts or does
\* not, as the v1 node records.
ConvPayload(v1) ==
    IF v1.inner = "ok" THEN Ok([name |-> v1.name]) ELSE Err(ConversionError(v1.name))

\* impl TryFrom<Box<CoreNodeV1>> for CoreNode: every converted variant keeps
\* its name but Reservoir, which becomes Storage; todo!() panics.
CoreNode_try_from(v1) ==
    IF v1.variant \in TodoVariants THEN Panic
    ELSE LET n == ConvPayload(v1)
         IN IF ~n.ok THEN n
            ELSE Ok([variant |-> IF v1.variant = "Reservoir" THEN "Storage" ELSE v1.variant,
                     node |-> n.value])

\* impl TryFrom<NodeV1> for Node: a core node is converted, a custom node is
\* kept as it is.
Node_try_from(v1) ==
    IF v1.kind = "Core"
    THEN LET nv2 == CoreNode_try_from(v1)
         IN IF ~nv2.ok THEN nv2 ELSE Ok([kind |-> "Core", node |-> nv2.value])
    ELSE Ok([kind |-> "Custom", node |-> [name |-> v1.name, ty |-> v1.ty]])

\* The v1 nodes of a model file.
NodesV1 ==
    [kind : {"Core"}, variant : ConvertedVariants \cup TodoVariants,
     name : {"node1", "node2"}, inner : {"ok", "err"}]
    \cup [kind : {"Custom"}, name : {"node1", "node2"}, ty : {"mynode"}]

ConvInit ==
    /\ convV1 \in NodesV1
    /\ convCall = "none"
    /\ convResult = None
    /\ convPc = "start"

\* The v1 node is converted to a v2 Node.
ConvNode ==
    /\ convPc = "start"
    /\ convCall' = "Node"
    /\ convResult' = Some(Node_try_from(convV1))
    /\ convPc' = IF Node_try_from(convV1) = Panic THEN "aborted" ELSE "done"
    /\ UNCHANGED convV1

\* The v1 core node is converted to a v2 CoreNode.
ConvCoreNode ==
    /\ convPc = "start"
    /\ convV1.kind = "Core"
    /\ convCall' = "CoreNode"
    /\ convResult' = Some(CoreNode_try_from(convV1))
    /\ convPc' = IF CoreNode_try_from(convV1) = Panic THEN "aborted" ELSE "done"
    /\ UNCHANGED convV1

ConvIdle ==
    /\ convV1 = << >>
    /\ convCall = "none"
    /\ convResult = None
    /\ convPc = "start"

(***************************************************************************)
(* ControlCurvePiecewiseInterpolated                                       *)
(***************************************************************************)
\* Number of timesteps of a run.
CcMaxSteps == 2

\* The parameter of test_control_curve_piecewise_interpolated, with the given
\* minimum and maximum.
CcTestParameter(minimum, maximum) ==
    [name |-> "My control curve",
     storage_node |-> "Reservoir",
     control_curves |-> <<ParameterRef("reservoir_cc"), Literal(Rat(1, 5))>>,
     values |-> Some(<< <<Rat(-1, 10), F(-1)>>, <<F(-100), F(-200)>>,
                        <<F(-300), F(-400)>> >>),
     minimum |-> minimum,
     maximum |-> maximum]

\* Option::unwrap_or
unwrap_or(option, default) == IF option.some THEN option.value ELSE default

\* An add_to_model that leaves minimum and maximum at their defaults.
ControlCurvePiecewiseInterpolatedParameter_add_to_model_defaults(self, model) ==
    [model EXCEPT !.piecewise =
        Some([metric |-> NodeProportionalVolume(self.storage_node),
              control_curves |-> [k \in 1..Len(self.control_curves) |->
                                     load(self.control_curves[k], model).metric],
              values |-> unwrap_or(self.values, << >>),
              maximum |-> F(1),
              minimum |-> F(0)])]

\* ControlCurvePiecewiseInterpolatedParameter::add_to_model: the storage
\* node's proportional volume metric, the loaded control curves, the values
\* (none: empty), maximum (none: 1.0) and minimum (none: 0.0) are handed to
\* PiecewiseInterpolatedParameter::new, and the parameter is added.
ControlCurvePiecewiseInterpolatedParameter_add_to_model(self, model) ==
    [model EXCEPT !.piecewise =
        Some([metric |-> NodeProportionalVolume(self.storage_node),
              control_curves |-> [k \in 1..Len(self.control_curves) |->
                                     load(self.control_curves[k], model).metric],
              values |-> unwrap_or(self.values, << >>),
              maximum |-> unwrap_or(self.maximum, F(1)),
              minimum |-> unwrap_or(self.minimum, F(0))])]

\* The value on the line through (upper, upper_value) and (lower, lower_value).
interpolate(x, lower, upper, lower_value, upper_value) ==
    FAdd(lower_value,
         FDiv(FMul(FSub(upper_value, lower_value), FSub(x, lower)), FSub(upper, lower)))

\* x clamped to [minimum, maximum].
CcClamp(x, minimum, maximum) ==
    IF FLess(x, minimum) THEN minimum ELSE IF FLess(maximum, x) THEN maximum ELSE x

\* PiecewiseInterpolatedParameter::compute at proportional volume volume,
\* curves being the current values of the control curves, in descending
\* order.  Region i lies below i of the curves; its upper break is the curve
\* above it (maximum for region 0) and its lower break the curve below it
\* (minimum for the last region).
PiecewiseInterpolatedParameter_compute(self, volume, curves) ==
    LET x == CcClamp(volume, self.minimum, self.maximum)
        i == Cardinality({k \in 1..Len(curves) : FLess(x, curves[k])})
        upper == IF i = 0 THEN self.maximum ELSE curves[i]
        lower == IF i = Len(curves) THEN self.minimum ELSE curves[i + 1]
    IN interpolate(x, lower, upper, self.values[i + 1][2], self.values[i + 1][1])

\* The current value of a loaded control curve.
CcCurveValue(metric, curve) == IF metric.type = "Constant" THEN metric.value ELSE curve

\* The schema parameters: the test's, with and without its minimum.
CcSchemas == {CcTestParameter(Some(Rat(1, 20)), None), CcTestParameter(None, None)}

\* Values of reservoir_cc, above the constant curve 0.2 and below 1.
CcCurveValues == {Rat(3, 10), Rat(1, 2), Rat(3, 5), Rat(4, 5)}

\* Proportional volumes of the storage node.
CcVolumes ==
    {F(0), Rat(1, 40), Rat(1, 20), Rat(1, 10), Rat(1, 5), Rat(1, 4), Rat(1, 2),
     Rat(7, 10), Rat(9, 10), F(1)}

CcInit ==
    /\ ccPc = "build"
    /\ ccSchema \in CcSchemas
    /\ ccModel = [parameters |-> <<"reservoir_cc">>, piecewise |-> None]
    /\ ccCurve \in CcCurveValues
    /\ ccT = 0
    /\ ccVolume = None
    /\ ccValue = None

\* The schema parameter is added to the model.
CcAddToModel ==
    /\ ccPc = "build"
    /\ ccModel' = ControlCurvePiecewiseInterpolatedParameter_add_to_model(ccSchema, ccModel)
    /\ ccPc' = "run"
    /\ UNCHANGED <<ccSchema, ccCurve, ccT, ccVolume, ccValue>>

\* One timestep: the storage node has some proportional volume and the
\* parameter is computed.
CcStep ==
    /\ ccPc = "run"
    /\ ccT < CcMaxSteps
    /\ \E volume \in CcVolumes :
          LET self == ccModel.piecewise.value
              curves == [k \in 1..Len(self.control_curves) |->
                            CcCurveValue(self.control_curves[k], ccCurve)]
          IN /\ ccVolume' = Some(volume)
             /\ ccValue' = Some(PiecewiseInterpolatedParameter_compute(self, volume, curves))
    /\ ccT' = ccT + 1
    /\ UNCHANGED <<ccPc, ccSchema, ccModel, ccCurve>>

CcIdle ==
    /\ ccPc = "build"
    /\ ccSchema = << >>
    /\ ccModel = << >>
    /\ ccCurve = F(0)
    /\ ccT = 0
    /\ ccVolume = None
    /\ ccValue = None

(***************************************************************************)
(* Control curve parameters of the schema                                  *)
(***************************************************************************)
V1SchemaConversion(msg) == [kind |-> "V1SchemaConversion", msg |-> msg]

\* p.try_into_v2_parameter(..) of a v1 parameter value: a number or a
\* reference converts, and a value marked "bad" fails to.
try_into_v2_parameter(p) ==
    CASE p.v1 = "number" -> Ok(Literal(p.value))
      [] p.v1 = "reference" -> Ok(ParameterRef(p.name))
      [] p.v1 = "bad" -> Err(V1SchemaConversion("value"))

\* .into_iter().map(try_into_v2_parameter).collect::<Result<Vec<_>, _>>():
\* the converted values, or the first error.
RECURSIVE CsCollect(_)
CsCollect(ps) ==
    IF ps = << >> THEN Ok(<< >>)
    ELSE LET head == try_into_v2_parameter(Head(ps))
             tail == CsCollect(Tail(ps))
         IN IF ~head.ok THEN head
            ELSE IF ~tail.ok THEN tail
            ELSE Ok(<<head.value>> \o tail.value)

\* Control curves taken from the single control_curve first.
control_curves_from_v1_single_first(v1) ==
    IF v1.control_curve.some
    THEN LET cc == try_into_v2_parameter(v1.control_curve.value)
         IN IF ~cc.ok THEN cc ELSE Ok(<<cc.value>>)
    ELSE IF v1.control_curves.some THEN CsCollect(v1.control_curves.value)
    ELSE Err(V1SchemaConversion("no control curves defined"))

\* let control_curves = if let Some(control_curves) = v1.control_curves {..}
\* else if let Some(control_curve) = v1.control_curve {..} else { return Err }
control_curves_from_v1(v1) ==
    IF v1.control_curves.some THEN CsCollect(v1.control_curves.value)
    ELSE IF v1.control_curve.some
    THEN LET cc == try_into_v2_parameter(v1.control_curve.value)
         IN IF ~cc.ok THEN cc ELSE Ok(<<cc.value>>)
    ELSE Err(V1SchemaConversion("no control curves defined"))

\* ControlCurveParameter: let values = if let Some(values) = v1.values {..}
\* else if let Some(parameters) = v1.parameters {..} else { return Err }
values_from_v1(v1) ==
    IF v1.values.some
    THEN Ok([k \in 1..Len(v1.values.value) |-> Literal(v1.values.value[k])])
    ELSE IF v1.parameters.some THEN CsCollect(v1.parameters.value)
    ELSE Err(V1SchemaConversion("no values or parameters defined"))

\* try_from_v1_parameter of the three control curve parameters.  The
\* interpolated parameter's v1 values are a plain list; the piecewise one
\* keeps its values, takes the v1 minimum and has no maximum.
try_from_v1_parameter(v1) ==
    LET control_curves == control_curves_from_v1(v1)
        values == CASE v1.type = "ControlCurve" -> values_from_v1(v1)
                    [] v1.type = "ControlCurveInterpolated" ->
                          Ok([k \in 1..Len(v1.values.value) |-> Literal(v1.values.value[k])])
                    [] v1.type = "ControlCurvePiecewiseInterpolated" -> Ok(v1.values)
    IN IF ~control_curves.ok THEN control_curves
       ELSE IF ~values.ok THEN values
       ELSE IF v1.type = "ControlCurvePiecewiseInterpolated"
       THEN Ok([type |-> v1.type, name |-> v1.name, storage_node |-> v1.storage_node,
                control_curves |-> control_curves.value, values |-> values.value,
                minimum |-> Some(v1.minimum), maximum |-> None])
       ELSE Ok([type |-> v1.type, name |-> v1.name, storage_node |-> v1.storage_node,
                control_curves |-> control_curves.value, values |-> values.value])

\* A parameters() that lists the values too, as ControlCurveParameter's does.
ControlCurvePiecewiseInterpolatedParameter_parameters_with_values(self) ==
    [k \in {"control_curves", "values"} |->
        IF k = "values" THEN [type |-> "List", values |-> self.values]
        ELSE [type |-> "List", values |-> self.control_curves]]

\* vec![("storage_node", self.storage_node.as_str())].into_iter().collect()
ControlCurvePiecewiseInterpolatedParameter_node_references(self) ==
    [k \in {"storage_node"} |-> self.storage_node]

\* attributes.insert("control_curves", cc.into()): the list of the curves.
ControlCurvePiecewiseInterpolatedParameter_parameters(self) ==
    [k \in {"control_curves"} |-> [type |-> "List", values |-> self.control_curves]]

\* The v1 parameter values of a model file.
CsV1Values ==
    {[v1 |-> "number", value |-> Rat(1, 2)], [v1 |-> "reference", name |-> "reservoir_cc"],
     [v1 |-> "bad"]}

\* The v1 control curve parameters.  An interpolated parameter has values.
CsV1Parameters ==
    {v1 \in
        [type : {"ControlCurve", "ControlCurveInterpolated",
                 "ControlCurvePiecewiseInterpolated"},
         name : {"cc"},
         storage_node : {"Reservoir"},
         control_curves : {None} \cup {Some(c) : c \in UNION {[1..n -> CsV1Values] : n \in 0..2}},
         control_curve : {None} \cup {Some(c) : c \in CsV1Values},
         values : {None, Some(<<F(1), F(2)>>)},
         parameters : {None, Some(<<[v1 |-> "reference", name |-> "p1"]>>),
                       Some(<<[v1 |-> "bad"]>>)},
         minimum : {Rat(1, 20)}] :
        v1.type = "ControlCurveInterpolated" => v1.values.some}

CsInit ==
    /\ \/ /\ csPc = "v1"
          /\ csV1 \in {Some(v1) : v1 \in CsV1Parameters}
          /\ csParam = None
       \/ /\ csPc = "v2"
          /\ csV1 = None
          /\ csParam \in
                {Some([k \in DOMAIN p \cup {"type"} |->
                         IF k = "type" THEN "ControlCurvePiecewiseInterpolated" ELSE p[k]]) :
                    p \in {CcTestParameter(Some(Rat(1, 20)), None),
                           CcTestParameter(None, Some(F(1)))}}
    /\ csResult = None
    /\ csRefs = None
    /\ csAttrs = None

\* The v1 parameter is converted.
CsTryFromV1 ==
    /\ csPc = "v1"
    /\ LET r == try_from_v1_parameter(csV1.value)
       IN /\ csResult' = Some(r)
          /\ csParam' = IF r.ok THEN Some(r.value) ELSE None
          /\ csPc' = IF r.ok THEN "v2" ELSE "failed"
    /\ UNCHANGED <<csV1, csRefs, csAttrs>>

\* node_references() of a piecewise interpolated parameter.
CsNodeReferences ==
    /\ csPc = "v2"
    /\ csParam.value.type = "ControlCurvePiecewiseInterpolated"
    /\ csRefs' = Some(ControlCurvePiecewiseInterpolatedParameter_node_references(csParam.value))
    /\ UNCHANGED <<csPc, csV1, csResult, csParam, csAttrs>>

\* parameters() of a piecewise interpolated parameter.
CsParameters ==
    /\ csPc = "v2"
    /\ csParam.value.type = "ControlCurvePiecewiseInterpolated"
    /\ csAttrs' = Some(ControlCurvePiecewiseInterpolatedParameter_parameters(csParam.value))
    /\ UNCHANGED <<csPc, csV1, csResult, csParam, csRefs>>

CsIdle ==
    /\ csPc = "v1"
    /\ csV1 = None
    /\ csResult = None
    /\ csParam = None
    /\ csRefs = None
    /\ csAttrs = None

(***************************************************************************)
(* The type name of a schema node (pywr-schema/src/nodes/mod.rs)           *)
(***************************************************************************)
\* The variants of enum CoreNode, in declaration order.
CoreNodeVariants ==
    {"Input", "Link", "Output", "Storage", "Catchment", "RiverGauge",
     "LossLink", "Delay", "PiecewiseLink", "PiecewiseStorage", "River",
     "RiverSplitWithGauge", "WaterTreatmentWorks", "Aggregated",
     "AggregatedStorage", "VirtualStorage", "AnnualVirtualStorage",
     "MonthlyVirtualStorage"}

\* #[serde(tag = "type")]: the serialised "type" tag is the variant's name.
CoreNode_type_tag(self) == self.variant

\* CoreNode::node_type, arm by arm.
CoreNode_node_type(self) ==
    CASE self.variant = "Input" -> "Input"
      [] self.variant = "Link" -> "Link"
      [] self.variant = "Output" -> "Output"
      [] self.variant = "Storage" -> "Storage"
      [] self.variant = "Catchment" -> "Catchment"
      [] self.variant = "RiverGauge" -> "RiverGauge"
      [] self.variant = "LossLink" -> "LossLink"
      [] self.variant = "River" -> "River"
      [] self.variant = "RiverSplitWithGauge" -> "River"
      [] self.variant = "WaterTreatmentWorks" -> "WaterTreatmentWorks"
      [] self.variant = "Aggregated" -> "Aggregated"
      [] self.variant = "AggregatedStorage" -> "AggregatedStorage"
      [] self.variant = "VirtualStorage" -> "VirtualStorage"
      [] self.variant = "AnnualVirtualStorage" -> "AnnualVirtualStorage"
      [] self.variant = "PiecewiseLink" -> "PiecewiseLink"
      [] self.variant = "PiecewiseStorage" -> "PiecewiseStorage"
      [] self.variant = "Delay" -> "Delay"
      [] self.variant = "MonthlyVirtualStorage" -> "MonthlyVirtualStorage"

\* Two nodes of any variants, none asked yet.
NtInit ==
    /\ ntNodes \in [1..2 -> [variant : CoreNodeVariants]]
    /\ ntTypes = << >>

\* node_type() is called on the next node.
NtNodeType ==
    /\ Len(ntTypes) < 2
    /\ ntTypes' = Append(ntTypes, CoreNode_node_type(ntNodes[Len(ntTypes) + 1]))
    /\ UNCHANGED ntNodes

NtIdle == ntNodes = << >> /\ ntTypes = << >>

(***************************************************************************)
(* The summing metrics of Metric::get_value (pywr-core/src/metric.rs)      *)
(***************************************************************************)
\* The member lists summed over: none, one, two, and lists naming a node the
\* state does not hold, first or last.
AggMemberLists == << <<1, 2>>, << >>, <<2>>, <<2, 3>>, <<3, 1>> >>

\* The network of two nodes with one aggregated node and one aggregated
\* storage node per member list.
AggNetwork ==
    [MetNetwork EXCEPT !.aggregated_nodes = AggMemberLists,
                       !.aggregated_storage_nodes = AggMemberLists]

\* The four summing metrics, over every member list.
AggMetrics ==
    {AggregatedNodeInFlow(i) : i \in 1..Len(AggMemberLists)}
    \cup {AggregatedNodeOutFlow(i) : i \in 1..Len(AggMemberLists)}
    \cup {AggregatedNodeVolume(i) : i \in 1..Len(AggMemberLists)}
    \cup {MultiNodeInFlow(AggMemberLists[i]) : i \in 1..Len(AggMemberLists)}

AggInit ==
    /\ aggNetwork = AggNetwork
    /\ aggState \in MetStates
    /\ aggMetric \in AggMetrics
    /\ aggResult = None

\* A caller evaluates the metric against the network and the state.
AggGetValue ==
    /\ ~aggResult.some
    /\ aggResult' = Some(get_value(aggMetric, aggNetwork, aggState))
    /\ UNCHANGED <<aggNetwork, aggState, aggMetric>>

AggIdle ==
    /\ aggNetwork = << >>
    /\ aggState = << >>
    /\ aggMetric = Constant(F(0))
    /\ aggResult = None

(***************************************************************************)
(* LoadedTimeseriesCollection (pywr-schema/src/timeseries/mod.rs)          *)
(***************************************************************************)
\* Largest number of timeseries definitions of a schema.
TsMaxDefs == 2

\* Number of load_column / load_df calls in a run.
TsMaxCalls == 2

TimeseriesNotFound(name) == [type |-> "TimeseriesNotFound", name |-> name]
ScenarioGroupNotFound(name) == [type |-> "ScenarioGroupNotFound", name |-> name]
PolarsError(msg) == [type |-> "PolarsError", msg |-> msg]
ParameterNameAlreadyExists(name) == [type |-> "ParameterNameAlreadyExists", name |-> name]

\* HashMap<String, DataFrame> as a sequence of <<key, value>> with distinct keys.
HashMap_new == << >>

HashMap_contains(map, key) == \E i \in 1..Len(map) : map[i][1] = key

HashMap_get(map, key) ==
    IF HashMap_contains(map, key)
    THEN Some(map[CHOOSE i \in 1..Len(map) : map[i][1] = key][2])
    ELSE None

\* A map that keeps the value it already holds for a key.
HashMap_insert_keep_first(map, key, value) ==
    IF HashMap_contains(map, key) THEN map ELSE Append(map, <<key, value>>)

\* HashMap::insert: the value of a key already held is replaced.
HashMap_insert(map, key, value) ==
    IF HashMap_contains(map, key)
    THEN [i \in 1..Len(map) |-> IF map[i][1] = key THEN <<key, value>> ELSE map[i]]
    ELSE Append(map, <<key, value>>)

\* Timeseries::load: what the dataset's load returns for a Polars provider;
\* the Pandas arm is todo!().
Timeseries_load(self) ==
    IF self.provider.type = "Polars" THEN self.provider.load ELSE Panic

\* The for loop of from_schema over the definitions left, with the map so far.
RECURSIVE TsFromSchemaLoop(_, _)
TsFromSchemaLoop(timeseries_defs, timeseries) ==
    IF timeseries_defs = << >> THEN Ok([timeseries |-> timeseries])
    ELSE LET ts == Head(timeseries_defs)
             df == Timeseries_load(ts)
         IN IF ~df.ok THEN df
            ELSE TsFromSchemaLoop(Tail(timeseries_defs),
                                  HashMap_insert(timeseries, ts.name, df.value))

\* LoadedTimeseriesCollection::from_schema
from_schema(timeseries_defs) ==
    IF timeseries_defs.some
    THEN TsFromSchemaLoop(timeseries_defs.value, HashMap_new)
    ELSE Ok([timeseries |-> HashMap_new])

\* domain.scenarios().group_index(scenario)
group_index(domain, scenario) ==
    IF \E i \in 1..Len(domain.scenarios) : domain.scenarios[i] = scenario
    THEN Some(CHOOSE i \in 1..Len(domain.scenarios) : domain.scenarios[i] = scenario)
    ELSE None

\* network.add_parameter: the parameter is appended and its index returned,
\* unless a parameter of that name is there already.
add_parameter(network, p) ==
    IF \E i \in 1..Len(network.parameters) : network.parameters[i].name = p.name
    THEN [result |-> Err(ParameterNameAlreadyExists(p.name)), network |-> network]
    ELSE [result |-> Ok(Len(network.parameters) + 1),
          network |-> [network EXCEPT !.parameters = Append(@, p)]]

\* LoadedTimeseriesCollection::load_column: the result and the network after.
load_column(self, network, name, col) ==
    LET df == HashMap_get(self.timeseries, name)
    IN IF ~df.some
       THEN [result |-> Err(TimeseriesNotFound(name)), network |-> network]
       ELSE IF col \notin df.value.columns
       THEN [result |-> Err(PolarsError("ColumnNotFound")), network |-> network]
       ELSE IF ~df.value.numeric
       THEN [result |-> Err(PolarsError("cast")), network |-> network]
       ELSE add_parameter(network,
                [type |-> "Array1", name |-> name \o "_" \o col,
                 array |-> <<df.value.id, col>>])

\* A load_df that looks the timeseries up before the scenario group.
load_df_timeseries_first(self, network, name, domain, scenario) ==
    LET scenario_group_index == group_index(domain, scenario)
        df == HashMap_get(self.timeseries, name)
    IN IF ~df.some
       THEN [result |-> Err(TimeseriesNotFound(name)), network |-> network]
       ELSE IF ~scenario_group_index.some
       THEN [result |-> Err(ScenarioGroupNotFound(scenario)), network |-> network]
       ELSE IF ~df.value.numeric
       THEN [result |-> Panic, network |-> network]
       ELSE add_parameter(network,
                [type |-> "Array2", name |-> name \o "_" \o scenario,
                 array |-> <<df.value.id>>,
                 scenario_group_index |-> scenario_group_index.value])

\* LoadedTimeseriesCollection::load_df: the result and the network after;
\* the unwrap() of a data frame that does not convert panics.
load_df(self, network, name, domain, scenario) ==
    LET scenario_group_index == group_index(domain, scenario)
        df == HashMap_get(self.timeseries, name)
    IN IF ~scenario_group_index.some
       THEN [result |-> Err(ScenarioGroupNotFound(scenario)), network |-> network]
       ELSE IF ~df.some
       THEN [result |-> Err(TimeseriesNotFound(name)), network |-> network]
       ELSE IF ~df.value.numeric
       THEN [result |-> Panic, network |-> network]
       ELSE add_parameter(network,
                [type |-> "Array2", name |-> name \o "_" \o scenario,
                 array |-> <<df.value.id>>,
                 scenario_group_index |-> scenario_group_index.value])

\* The data frames a dataset loads: their columns, and whether every column
\* converts to f64.
TsDataFrames ==
    {[id |-> 1, columns |-> {"x"}, numeric |-> TRUE],
     [id |-> 2, columns |-> {"x", "y"}, numeric |-> TRUE],
     [id |-> 3, columns |-> {"x"}, numeric |-> FALSE]}

\* The definitions: a Pandas provider, or a Polars provider whose dataset
\* loads a data frame or fails.
TsTimeseries ==
    [name : {"a", "b"},
     provider : {[type |-> "Pandas"]}
                \cup {[type |-> "Polars", load |-> Ok(df)] : df \in TsDataFrames}
                \cup {[type |-> "Polars", load |-> Err(PolarsError("load"))]}]

\* The domain has the one scenario group "s".
TsDomain == [scenarios |-> <<"s">>]

TsInit ==
    /\ tsPc = "schema"
    /\ tsDefs \in {None} \cup {Some(d) : d \in UNION {[1..n -> TsTimeseries] : n \in 0..TsMaxDefs}}
    /\ tsCollection = None
    /\ tsNetwork = [parameters |-> << >>]
    /\ tsBefore = tsNetwork
    /\ tsCall = None
    /\ tsResult = None
    /\ tsCalls = 0

\* The collection is built from the schema's definitions.
TsFromSchema ==
    /\ tsPc = "schema"
    /\ tsCollection' = Some(from_schema(tsDefs))
    /\ tsPc' = IF from_schema(tsDefs).ok THEN "loaded"
               ELSE IF from_schema(tsDefs) = Panic THEN "aborted" ELSE "failed"
    /\ UNCHANGED <<tsDefs, tsNetwork, tsBefore, tsCall, tsResult, tsCalls>>

\* A timeseries reference with a column is loaded into the network.
TsLoadColumn ==
    /\ tsPc = "loaded"
    /\ tsCalls < TsMaxCalls
    /\ \E name \in {"a", "b"}, col \in {"x", "y"} :
          LET r == load_column(tsCollection.value.value, tsNetwork, name, col)
          IN /\ tsCall' = Some([fn |-> "load_column", name |-> name, col |-> col])
             /\ tsResult' = Some(r.result)
             /\ tsNetwork' = r.network
    /\ tsBefore' = tsNetwork
    /\ tsCalls' = tsCalls + 1
    /\ UNCHANGED <<tsPc, tsDefs, tsCollection>>

\* A timeseries reference with a scenario group is loaded into the network.
TsLoadDf ==
    /\ tsPc = "loaded"
    /\ tsCalls < TsMaxCalls
    /\ \E name \in {"a", "b"}, scenario \in {"s", "t"} :
          LET r == load_df(tsCollection.value.value, tsNetwork, name, TsDomain, scenario)
          IN /\ tsCall' = Some([fn |-> "load_df", name |-> name, scenario |-> scenario])
             /\ tsResult' = Some(r.result)
             /\ tsNetwork' = r.network
             /\ tsPc' = IF r.result = Panic THEN "aborted" ELSE tsPc
    /\ tsBefore' = tsNetwork
    /\ tsCalls' = tsCalls + 1
    /\ UNCHANGED <<tsDefs, tsCollection>>

TsIdle ==
    /\ tsPc = "schema"
    /\ tsDefs = None
    /\ tsCollection = None
    /\ tsNetwork = << >>
    /\ tsBefore = << >>
    /\ tsCall = None
    /\ tsResult = None
    /\ tsCalls = 0

(***************************************************************************)
(* Specifications                                                          *)
(***************************************************************************)
SwitchInit == SwInit /\ WtwIdle /\ SchedIdle /\ MetIdle /\ ParIdle /\ VsIdle /\ ClpIdle /\ ConvIdle /\ CcIdle /\ CsIdle /\ NtIdle /\ AggIdle /\ TsIdle
SwitchNext ==
    \/ SwAddToModel /\ UNCHANGED <<wtwVars, schedVars, metVars, parVars, vsVars, clpVars, convVars, ccVars, csVars, ntVars, aggVars, tsVars>>
    \/ SwStep /\ UNCHANGED <<wtwVars, schedVars, metVars, parVars, vsVars, clpVars, convVars, ccVars, csVars, ntVars, aggVars, tsVars>>
SwitchSpec == SwitchInit /\ [][SwitchNext]_vars

WtwSpecInit == WtwInit /\ SwIdle /\ SchedIdle /\ MetIdle /\ ParIdle /\ VsIdle /\ ClpIdle /\ ConvIdle /\ CcIdle /\ CsIdle /\ NtIdle /\ AggIdle /\ TsIdle
WtwSpecNext ==
    \/ WtwAddInput /\ UNCHANGED <<swVars, schedVars, metVars, parVars, vsVars, clpVars, convVars, ccVars, csVars, ntVars, aggVars, tsVars>>
    \/ WtwAddToModel /\ UNCHANGED <<swVars, schedVars, metVars, parVars, vsVars, clpVars, convVars, ccVars, csVars, ntVars, aggVars, tsVars>>
    \/ WtwAddDemand /\ UNCHANGED <<swVars, schedVars, metVars, parVars, vsVars, clpVars, convVars, ccVars, csVars, ntVars, aggVars, tsVars>>
    \/ WtwConnectEdges /\ UNCHANGED <<swVars, schedVars, metVars, parVars, vsVars, clpVars, convVars, ccVars, csVars, ntVars, aggVars, tsVars>>
    \/ WtwSetConstraints /\ UNCHANGED <<swVars, schedVars, metVars, parVars, vsVars, clpVars, convVars, ccVars, csVars, ntVars, aggVars, tsVars>>
    \/ WtwSetDemandConstraints /\ UNCHANGED <<swVars, schedVars, metVars, parVars, vsVars, clpVars, convVars, ccVars, csVars, ntVars, aggVars, tsVars>>
    \/ WtwSolverSetup /\ UNCHANGED <<swVars, schedVars, metVars, parVars, vsVars, clpVars, convVars, ccVars, csVars, ntVars, aggVars, tsVars>>
    \/ WtwStep /\ UNCHANGED <<swVars, schedVars, metVars, parVars, vsVars, clpVars, convVars, ccVars, csVars, ntVars, aggVars, tsVars>>
WtwSpec == WtwSpecInit /\ [][WtwSpecNext]_vars

SchedSpecInit == SchedInit /\ SwIdle /\ WtwIdle /\ MetIdle /\ ParIdle /\ VsIdle /\ ClpIdle /\ ConvIdle /\ CcIdle /\ CsIdle /\ NtIdle /\ AggIdle /\ TsIdle
SchedSpecNext ==
    \/ SchedFreeze /\ UNCHANGED <<swVars, wtwVars, metVars, parVars, vsVars, clpVars, convVars, ccVars, csVars, ntVars, aggVars, tsVars>>
    \/ SchedNextTimestep /\ UNCHANGED <<swVars, wtwVars, metVars, parVars, vsVars, clpVars, convVars, ccVars, csVars, ntVars, aggVars, tsVars>>
    \/ (\E s \in Scenarios : SchedBefore(s)) /\ UNCHANGED <<swVars, wtwVars, metVars, parVars, vsVars, clpVars, convVars, ccVars, csVars, ntVars, aggVars, tsVars>>
    \/ (\E s \in Scenarios : SchedCompute(s)) /\ UNCHANGED <<swVars, wtwVars, metVars, parVars, vsVars, clpVars, convVars, ccVars, csVars, ntVars, aggVars, tsVars>>
    \/ (\E s \in Scenarios : SchedRefresh(s)) /\ UNCHANGED <<swVars, wtwVars, metVars, parVars, vsVars, clpVars, convVars, ccVars, csVars, ntVars, aggVars, tsVars>>
SchedSpec == SchedSpecInit /\ [][SchedSpecNext]_vars

MetricSpecInit == MetInit /\ SwIdle /\ WtwIdle /\ SchedIdle /\ ParIdle /\ VsIdle /\ ClpIdle /\ ConvIdle /\ CcIdle /\ CsIdle /\ NtIdle /\ AggIdle /\ TsIdle
MetricSpecNext ==
    \/ MetGetValue /\ UNCHANGED <<swVars, wtwVars, schedVars, parVars, vsVars, clpVars, convVars, ccVars, csVars, ntVars, aggVars, tsVars>>
MetricSpec == MetricSpecInit /\ [][MetricSpecNext]_vars

ParamSpecInit == ParInit /\ SwIdle /\ WtwIdle /\ SchedIdle /\ MetIdle /\ VsIdle /\ ClpIdle /\ ConvIdle /\ CcIdle /\ CsIdle /\ NtIdle /\ AggIdle /\ TsIdle
ParamSpecNext ==
    \/ ParCompute /\ UNCHANGED <<swVars, wtwVars, schedVars, metVars, vsVars, clpVars, convVars, ccVars, csVars, ntVars, aggVars, tsVars>>
ParamSpec == ParamSpecInit /\ [][ParamSpecNext]_vars

VsSpecInit == VsInit /\ SwIdle /\ WtwIdle /\ SchedIdle /\ MetIdle /\ ParIdle /\ ClpIdle /\ ConvIdle /\ CcIdle /\ CsIdle /\ NtIdle /\ AggIdle /\ TsIdle
VsSpecNext ==
    \/ VsAddToModel /\ UNCHANGED <<swVars, wtwVars, schedVars, metVars, parVars, clpVars, convVars, ccVars, csVars, ntVars, aggVars, tsVars>>
    \/ VsStep /\ UNCHANGED <<swVars, wtwVars, schedVars, metVars, parVars, clpVars, convVars, ccVars, csVars, ntVars, aggVars, tsVars>>
VsSpec == VsSpecInit /\ [][VsSpecNext]_vars

ClpSpecInit == ClpInit /\ SwIdle /\ WtwIdle /\ SchedIdle /\ MetIdle /\ ParIdle /\ VsIdle /\ ConvIdle /\ CcIdle /\ CsIdle /\ NtIdle /\ AggIdle /\ TsIdle
ClpSpecNext ==
    \/ ClpParallel /\ UNCHANGED <<swVars, wtwVars, schedVars, metVars, parVars, vsVars, convVars, ccVars, csVars, ntVars, aggVars, tsVars>>
    \/ ClpThreads /\ UNCHANGED <<swVars, wtwVars, schedVars, metVars, parVars, vsVars, convVars, ccVars, csVars, ntVars, aggVars, tsVars>>
    \/ ClpBuild /\ UNCHANGED <<swVars, wtwVars, schedVars, metVars, parVars, vsVars, convVars, ccVars, csVars, ntVars, aggVars, tsVars>>
    \/ ClpDefault /\ UNCHANGED <<swVars, wtwVars, schedVars, metVars, parVars, vsVars, convVars, ccVars, csVars, ntVars, aggVars, tsVars>>
ClpSpec == ClpSpecInit /\ [][ClpSpecNext]_vars

ConvSpecInit == ConvInit /\ SwIdle /\ WtwIdle /\ SchedIdle /\ MetIdle /\ ParIdle /\ VsIdle /\ ClpIdle /\ CcIdle /\ CsIdle /\ NtIdle /\ AggIdle /\ TsIdle
ConvSpecNext ==
    \/ ConvNode /\ UNCHANGED <<swVars, wtwVars, schedVars, metVars, parVars, vsVars, clpVars, ccVars, csVars, ntVars, aggVars, tsVars>>
    \/ ConvCoreNode /\ UNCHANGED <<swVars, wtwVars, schedVars, metVars, parVars, vsVars, clpVars, ccVars, csVars, ntVars, aggVars, tsVars>>
ConvSpec == ConvSpecInit /\ [][ConvSpecNext]_vars

CcSpecInit == CcInit /\ SwIdle /\ WtwIdle /\ SchedIdle /\ MetIdle /\ ParIdle /\ VsIdle /\ ClpIdle /\ ConvIdle /\ CsIdle /\ NtIdle /\ AggIdle /\ TsIdle
CcSpecNext ==
    \/ CcAddToModel /\ UNCHANGED <<swVars, wtwVars, schedVars, metVars, parVars, vsVars, clpVars, convVars, csVars, ntVars, aggVars, tsVars>>
    \/ CcStep /\ UNCHANGED <<swVars, wtwVars, schedVars, metVars, parVars, vsVars, clpVars, convVars, csVars, ntVars, aggVars, tsVars>>
CcSpec == CcSpecInit /\ [][CcSpecNext]_vars

CsSpecInit == CsInit /\ SwIdle /\ WtwIdle /\ SchedIdle /\ MetIdle /\ ParIdle /\ VsIdle /\ ClpIdle /\ ConvIdle /\ CcIdle /\ NtIdle /\ AggIdle /\ TsIdle
CsSpecNext ==
    \/ CsTryFromV1 /\ UNCHANGED <<swVars, wtwVars, schedVars, metVars, parVars, vsVars, clpVars, convVars, ccVars, ntVars, aggVars, tsVars>>
    \/ CsNodeReferences /\ UNCHANGED <<swVars, wtwVars, schedVars, metVars, parVars, vsVars, clpVars, convVars, ccVars, ntVars, aggVars, tsVars>>
    \/ CsParameters /\ UNCHANGED <<swVars, wtwVars, schedVars, metVars, parVars, vsVars, clpVars, convVars, ccVars, ntVars, aggVars, tsVars>>
CsSpec == CsSpecInit /\ [][CsSpecNext]_vars

NtSpecInit == NtInit /\ SwIdle /\ WtwIdle /\ SchedIdle /\ MetIdle /\ ParIdle /\ VsIdle /\ ClpIdle /\ ConvIdle /\ CcIdle /\ CsIdle /\ AggIdle /\ TsIdle
NtSpecNext ==
    \/ NtNodeType /\ UNCHANGED <<swVars, wtwVars, schedVars, metVars, parVars, vsVars, clpVars, convVars, ccVars, csVars, aggVars, tsVars>>
NtSpec == NtSpecInit /\ [][NtSpecNext]_vars

AggSpecInit == AggInit /\ SwIdle /\ WtwIdle /\ SchedIdle /\ MetIdle /\ ParIdle /\ VsIdle /\ ClpIdle /\ ConvIdle /\ CcIdle /\ CsIdle /\ NtIdle /\ TsIdle
AggSpecNext ==
    \/ AggGetValue /\ UNCHANGED <<swVars, wtwVars, schedVars, metVars, parVars, vsVars, clpVars, convVars, ccVars, csVars, ntVars, tsVars>>
AggSpec == AggSpecInit /\ [][AggSpecNext]_vars

TsSpecInit == TsInit /\ SwIdle /\ WtwIdle /\ SchedIdle /\ MetIdle /\ ParIdle /\ VsIdle /\ ClpIdle /\ ConvIdle /\ CcIdle /\ CsIdle /\ NtIdle /\ AggIdle
TsSpecNext ==
    \/ TsFromSchema /\ UNCHANGED <<swVars, wtwVars, schedVars, metVars, parVars, vsVars, clpVars, convVars, ccVars, csVars, ntVars, aggVars>>
    \/ TsLoadColumn /\ UNCHANGED <<swVars, wtwVars, schedVars, metVars, parVars, vsVars, clpVars, convVars, ccVars, csVars, ntVars, aggVars>>
    \/ TsLoadDf /\ UNCHANGED <<swVars, wtwVars, schedVars, metVars, parVars, vsVars, clpVars, convVars, ccVars, csVars, ntVars, aggVars>>
TsSpec == TsSpecInit /\ [][TsSpecNext]_vars

(***************************************************************************)
(* Claims                                                                  *)
(***************************************************************************)

\* The value of scenario s before its latest step.
SwPrev(s) == IF Len(swTrace[s]) = 1 THEN 0 ELSE swTrace[s][Len(swTrace[s]) - 1]

\* C1: the switch is a two-state machine per scenario. Before the first step
\* its value is 0; a step from 0 gives 1 exactly when the on index parameter
\* is non-zero, a step from 1 gives 0 exactly when the off index parameter is
\* non-zero, otherwise the value is kept; and the run of S5 (on = [0,1,0,0,1],
\* off = [0,0,0,1,0]) produces [0,1,1,0,1].
C1_SwitchTwoState ==
    \A s \in Scenarios :
        /\ swInternal[s] \in {0, 1}
        /\ swT = 0 => swInternal[s] = 0
        /\ swT > 0 =>
            LET prev == SwPrev(s)
                cur == swTrace[s][Len(swTrace[s])]
            IN /\ cur = swInternal[s]
               /\ prev = 0 => (cur = 1 <=> swOn[s] # 0)
               /\ prev = 1 => (cur = 0 <=> swOff[s] # 0)
        /\ (swInputs = "vector" /\ swT = Len(S5On)) => swTrace[s] = S5Expected

\* The S5 run has completed and has passed through both transitions.
C1_Witness ==
    /\ swInputs = "vector"
    /\ swT = Len(S5On)
    /\ \A s \in Scenarios : swTrace[s] = <<0, 1, 1, 0, 1>>

\* Node indices of the built network, by name.
WtwIdx(name, sub_name) == get_node_index_by_name(wtwModel, name, sub_name)

\* C2: in the run of model_str (input1 -> wtw1 with max_flow 10 and
\* loss_factor 0.1 -> demand1 with max_flow 15 and cost -10), after every
\* solved timestep the out-flow of input1 is 11 and the in-flow of demand1
\* is 10.
C2_S1Flows ==
    (wtwNode = S1Wtw /\ wtwPc = "run" /\ wtwT > 0) =>
        /\ wtwOut[WtwIdx("input1", None)] = 11
        /\ wtwIn[WtwIdx("demand1", None)] = 10

\* The run of model_str has solved all its timesteps with these flows.
C2_Witness ==
    /\ wtwNode = S1Wtw
    /\ wtwT = WtwMaxSteps
    /\ wtwOut[WtwIdx("input1", None)] = 11
    /\ wtwIn[WtwIdx("demand1", None)] = 10

\* The loss factor of the schema node is given and is not the literal zero.
WtwNonZeroLoss ==
    /\ wtwNode.loss_factor.some
    /\ wtwNode.loss_factor.value.dynamic = "Constant" => wtwNode.loss_factor.value.value.num # 0

\* The metric the non-zero loss factor of the schema node loads as.
WtwLossMetric ==
    IF wtwNode.loss_factor.value.dynamic = "Constant"
    THEN Constant(wtwNode.loss_factor.value.value)
    ELSE ParameterValue(1)

\* The value of the loss factor in the latest solved step.
WtwLossValue == WtwMetricValue(WtwLossMetric, wtwParam)

\* C3: with a non-zero loss factor lf, once set_constraints has run the
\* aggregated node over (net, loss) carries the factors Ratio [1, lf]; and
\* after every solved timestep the flow into the loss node is lf times the
\* net flow, so that the gross flow out of input1 is (1 + lf) times the net
\* flow.
C3_LossRatio ==
    (WtwNonZeroLoss /\ wtwPc \in {"demand_constraints", "setup", "run"}) =>
        LET agg == wtwModel.aggregated_nodes[1]
            net == WtwIdx("wtw1", net_sub_name)
            loss == WtwIdx("wtw1", loss_sub_name)
        IN /\ agg.nodes = <<net, loss>>
           /\ agg.factors = Some(Ratio(<<Constant(Rat(1, 1)), WtwLossMetric>>))
           /\ wtwT > 0 =>
                /\ wtwIn[loss] * WtwLossValue.den = WtwLossValue.num * wtwIn[net]
                /\ wtwOut[WtwIdx("input1", None)] * WtwLossValue.den
                     = (WtwLossValue.den + WtwLossValue.num) * wtwIn[net]

\* A step has been solved with a loss factor held by a parameter, and water
\* flows through the works and into the loss node.
C3_Witness ==
    /\ WtwNonZeroLoss
    /\ wtwNode.loss_factor.value.dynamic = "Parameter"
    /\ wtwPc = "run"
    /\ wtwT > 0
    /\ wtwParam = Some(Rat(2, 5))
    /\ wtwIn[WtwIdx("wtw1", net_sub_name)] = 5
    /\ wtwIn[WtwIdx("wtw1", loss_sub_name)] = 2
    /\ wtwOut[WtwIdx("input1", None)] = 7

\* The core nodes of wtw1 of the given kind, as the set of their sub-names.
WtwSubNames(kind) ==
    {wtwModel.nodes[i].sub_name :
        i \in {j \in 1..Len(wtwModel.nodes) :
                 wtwModel.nodes[j].name = "wtw1" /\ wtwModel.nodes[j].kind = kind}}

\* The number of core nodes of wtw1.
WtwNodeCount ==
    Cardinality({j \in 1..Len(wtwModel.nodes) : wtwModel.nodes[j].name = "wtw1"})

\* C4: add_to_model creates for wtw1 exactly the three link nodes net,
\* net_soft_min_flow and net_above_soft_min_flow and the two internal edges
\* net -> net_soft_min_flow and net -> net_above_soft_min_flow, and, exactly
\* when a loss factor is given, the loss output node and the aggregated node
\* over (net, loss); the network of model_str ends with 6 nodes and 6 edges.
C4_AddToModel ==
    /\ wtwPc = "demand" =>
        LET net == WtwIdx("wtw1", net_sub_name)
        IN /\ WtwSubNames("Link") = {net_sub_name, net_soft_min_flow_sub_name,
                                     net_above_soft_min_flow_sub_name}
           /\ WtwSubNames("Input") = {}
           /\ WtwSubNames("Output") = IF wtwNode.loss_factor.some THEN {loss_sub_name} ELSE {}
           /\ WtwNodeCount = IF wtwNode.loss_factor.some THEN 4 ELSE 3
           /\ wtwModel.edges = << <<net, WtwIdx("wtw1", net_soft_min_flow_sub_name)>>,
                                  <<net, WtwIdx("wtw1", net_above_soft_min_flow_sub_name)>> >>
           /\ wtwModel.aggregated_nodes =
                IF wtwNode.loss_factor.some
                THEN << [name |-> "wtw1", sub_name |-> agg_sub_name,
                         nodes |-> <<net, WtwIdx("wtw1", loss_sub_name)>>,
                         factors |-> None] >>
                ELSE << >>
    /\ (wtwNode = S1Wtw /\ wtwPc \in {"constraints", "demand_constraints", "setup", "run"}) =>
        /\ Len(wtwModel.nodes) = 6
        /\ Len(wtwModel.edges) = 6

\* add_to_model has run for a node without a loss factor: three nodes, no
\* aggregated node.
C4_Witness ==
    /\ wtwPc = "demand"
    /\ ~wtwNode.loss_factor.some
    /\ WtwNodeCount = 3
    /\ Len(wtwModel.edges) = 2
    /\ wtwModel.aggregated_nodes = << >>

MetConstraintValue(metric) ==
    IF metric.type = "Constant" THEN metric.value.num
    ELSE metState.parameter_values[metric.idx]

\* The sum of values[n] over the members n of a sequence of node indices.
MetMemberSum(values, members) ==
    Sum([k \in 1..Len(members) |-> values[members[k]]], 1..Len(members))

\* C7: AggregatedNodeProportionalVolume(a) returns the sum of the members'
\* volumes divided by the sum of the members' current max volumes, and
\* returns the error DivisionByZero when the sum of the max volumes is 0.
C7_ProportionalVolumeOrDivisionByZero ==
    (/\ metMetric.type = "AggregatedNodeProportionalVolume"
     /\ metMetric.idx \in 1..Len(metNetwork.aggregated_storage_nodes)
     /\ Len(metResults) > 0) =>
        LET members == metNetwork.aggregated_storage_nodes[metMetric.idx]
            volume == MetMemberSum(metState.node_volumes, members)
            max_volume ==
                MetMemberSum([n \in 1..Len(metNetwork.nodes) |->
                                 MetConstraintValue(metNetwork.nodes[n].max_volume)],
                             members)
            result == metResults[1]
        IN IF max_volume = 0
           THEN result = Err("DivisionByZero")
           ELSE /\ result.ok
                /\ result.value.den # 0
                /\ result.value.num * max_volume = volume * result.value.den

\* C8: AggregatedNodeInFlow(a) is the sum of the stored in-flows of the
\* member nodes of aggregated node a, and AggregatedNodeOutFlow(a) the sum
\* of their stored out-flows.
C8_AggregatedNodeFlows ==
    (/\ metMetric.type \in {"AggregatedNodeInFlow", "AggregatedNodeOutFlow"}
     /\ metMetric.idx \in 1..Len(metNetwork.aggregated_nodes)
     /\ Len(metResults) > 0) =>
        LET members == metNetwork.aggregated_nodes[metMetric.idx]
            flows == IF metMetric.type = "AggregatedNodeInFlow"
                     THEN metState.node_in_flows
                     ELSE metState.node_out_flows
        IN metResults[1] = Ok(Rat(MetMemberSum(flows, members), 1))

\* The in-flow of an aggregated node over two nodes that both have in-flow
\* and no out-flow has been evaluated.
C8_Witness ==
    /\ metMetric = AggregatedNodeInFlow(1)
    /\ metState.node_in_flows = <<1, 1>>
    /\ metState.node_out_flows = <<0, 0>>
    /\ Len(metResults) > 0
    /\ metResults[1] = Ok(Rat(2, 1))

\* C9: NodeInFlowDeficit(n) is the node's current max flow minus its stored
\* in-flow, not clamped: it is negative when the in-flow exceeds the max flow.
C9_InFlowDeficit ==
    (/\ metMetric.type = "NodeInFlowDeficit"
     /\ metMetric.idx \in 1..Len(metNetwork.nodes)
     /\ Len(metResults) > 0) =>
        LET max_flow == MetConstraintValue(metNetwork.nodes[metMetric.idx].max_flow)
            flow == metState.node_in_flows[metMetric.idx]
            result == metResults[1]
        IN /\ result = Ok(Rat(max_flow - flow, 1))
           /\ flow > max_flow => result.value.num < 0

\* The deficit of a node whose in-flow exceeds its current max flow has been
\* evaluated, and is negative.
C9_Witness ==
    /\ metMetric = NodeInFlowDeficit(1)
    /\ metState.parameter_values = <<0>>
    /\ metState.node_in_flows[1] = 1
    /\ Len(metResults) > 0
    /\ metResults[1] = Ok(Rat(-1, 1))

\* The result of a sub-metric of a VolumeBetweenControlCurves, absent ones
\* taking their default.
MetSubValue(metric, default) ==
    IF metric.some THEN get_value(metric.value, metNetwork, metState) ELSE Ok(Rat(default, 1))

\* C10: VolumeBetweenControlCurves{max, upper, lower} is max * (upper -
\* lower), upper being 1 when absent and lower 0 when absent; when upper is
\* less than lower the result is a negative value and not an error; and when
\* a sub-metric fails, the result is the error of a sub-metric.
C10_VolumeBetweenControlCurves ==
    (metMetric.type = "VolumeBetweenControlCurves" /\ Len(metResults) > 0) =>
        LET max == MetSubValue(Some(metMetric.max_volume), 0)
            upper == MetSubValue(metMetric.upper, 1)
            lower == MetSubValue(metMetric.lower, 0)
            result == metResults[1]
        IN IF max.ok /\ upper.ok /\ lower.ok
           THEN /\ result.ok
                /\ result.value.den # 0
                /\ result.value.num * (max.value.den * upper.value.den * lower.value.den)
                     = result.value.den * max.value.num
                         * (upper.value.num * lower.value.den
                              - lower.value.num * upper.value.den)
                /\ (FLess(upper.value, lower.value) /\ max.value.num > 0)
                       => result.value.num < 0
           ELSE /\ ~result.ok
                /\ result \in {r \in {max, upper, lower} : ~r.ok}

\* A volume between curves has been evaluated with the upper curve below
\* the lower one, and is negative.
C10_Witness ==
    /\ metMetric = VolumeBetweenControlCurves(Constant(F(2)), Some(ParameterValue(1)),
                                              Some(NodeVolume(2)))
    /\ metState.parameter_values = <<0>>
    /\ metState.node_volumes[2] = 1
    /\ Len(metResults) > 0
    /\ metResults[1] = Ok(Rat(-2, 1))

\* The latest step computed the parameter, which is of the given type.
ParComputed(type) == parLast.some /\ parParam.type = type

ParTimestep == parLast.value.timestep
ParResults == parLast.value.results

\* C11: VectorParameter.compute returns values[t] when the timestep index t is
\* less than the length of the vector and Err(TimestepIndexOutOfRange)
\* otherwise, whatever the scenario and the state.
C11_VectorCompute ==
    ParComputed("Vector") =>
        \A s \in Scenarios :
            ParResults[s] =
                IF ParTimestep.index < Len(parParam.values)
                THEN Ok(parParam.values[ParTimestep.index + 1])
                ELSE Err("TimestepIndexOutOfRange")

\* A non-empty vector has been computed past its end, in two different states.
C11_Witness ==
    /\ ParComputed("Vector")
    /\ Len(parParam.values) > 0
    /\ ParTimestep.index >= Len(parParam.values)
    /\ parState[1] # parState[2]
    /\ \A s \in Scenarios : ParResults[s] = Err("TimestepIndexOutOfRange")

\* C12: Array1Parameter.compute and Array2Parameter.compute return
\* Err(TimestepIndexOutOfRange), and do not panic, when the timestep index is
\* outside the array.
C12_ArrayOutOfRange ==
    /\ (ParComputed("Array1") \/ ParComputed("Array2"))
    /\ ParTimestep.index >= Len(parParam.array)
    => /\ parPc = "run"
       /\ \A s \in Scenarios : ParResults[s] = Err("TimestepIndexOutOfRange")

\* C13: Array2Parameter.compute returns array[t, s] for the timestep index t
\* and the scenario s, so that scenarios whose columns differ get different
\* values.
C13_Array2Scenario ==
    /\ ParComputed("Array2")
    /\ ParTimestep.index < Len(parParam.array)
    => \A s \in Scenarios :
           ParResults[s] = Ok(parParam.array[ParTimestep.index + 1][s])

\* C14: MonthlyProfileParameter.compute returns, for a timestep in month m,
\* the m-th of its twelve values, for every month from January to December
\* and without failing; the profile 1, ..., 12 gives the month number.
C14_MonthlyProfile ==
    ParComputed("MonthlyProfile") =>
        /\ parPc = "run"
        /\ \A s \in Scenarios :
               ParResults[s] = Ok(parParam.values[ParTimestep.month])

\* C20: NegativeParameter.compute returns the negation of its metric's value
\* in the state, and the metric's error, unchanged, when the metric fails.
C20_Negative ==
    ParComputed("Negative") =>
        \A s \in Scenarios :
            LET x == get_value(parParam.metric, MetNetwork, parState[s])
                r == ParResults[s]
            IN IF x.ok
               THEN r.ok /\ r.value.den = x.value.den /\ r.value.num + x.value.num = 0
               ELSE r = x

\* A negative parameter over a metric that is negative in one scenario and
\* not in the other: the results are positive and not positive.
C20_Witness ==
    /\ ParComputed("Negative")
    /\ get_value(parParam.metric, MetNetwork, parState[1]).ok
    /\ get_value(parParam.metric, MetNetwork, parState[1]).value.num < 0
    /\ get_value(parParam.metric, MetNetwork, parState[2]).value.num >= 0
    /\ ParResults[1].ok
    /\ ParResults[1].value.num > 0
    /\ ParResults[2].value.num <= 0

\* add_to_model has been called on the schema node.
VsCalled == vsResult.some

\* Every member named by the schema node is a node of the network.
VsMembersExist ==
    \A k \in 1..Len(vsNode.nodes) :
        \E i \in 1..Len(vsBefore.nodes) : vsBefore.nodes[i] = vsNode.nodes[k]

\* The network holds the virtual storage nodes it held before and one more.
VsOneAdded ==
    /\ Len(vsNetwork.virtual_storage_nodes) = Len(vsBefore.virtual_storage_nodes) + 1
    /\ SubSeq(vsNetwork.virtual_storage_nodes, 1, Len(vsBefore.virtual_storage_nodes))
           = vsBefore.virtual_storage_nodes
    /\ VsAdded.name = vsNode.name

VsAllFactorsNonNegative ==
    \A k \in 1..Len(VsAdded.nodes) : VsFactor(VsAdded, k).num >= 0

\* No recorded volume exceeds the one recorded before it.
VsNonIncreasing ==
    \A i \in 1..(Len(vsVolumes) - 1) : ~FLess(vsVolumes[i], vsVolumes[i + 1])

\* C16 (as stated): for a virtual storage with reset Never, over the timesteps
\* of a run the volume is non-increasing exactly when all factors are >= 0.
C16_MonotoneIffNonNegative ==
    (vsPc = "run" /\ vsT = VsMaxSteps /\ VsAdded.reset = VirtualStorageReset_Never) =>
        (VsNonIncreasing <=> VsAllFactorsNonNegative)

\* C16 (amended): for a virtual storage with reset Never whose factors are
\* all >= 0, the volume never increases from one timestep to the next.
C16_MonotoneWhenNonNegative ==
    (vsPc = "run" /\ VsAdded.reset = VirtualStorageReset_Never /\ VsAllFactorsNonNegative)
        => VsNonIncreasing

\* A storage with a positive factor has run to the end with flow through its
\* members, and its volume has gone down.
C16_Witness ==
    /\ vsPc = "run"
    /\ vsT = VsMaxSteps
    /\ VsAdded.reset = VirtualStorageReset_Never
    /\ VsAdded.factors.some
    /\ VsAllFactorsNonNegative
    /\ \E k \in 1..Len(VsAdded.nodes) : VsFactor(VsAdded, k).num > 0
    /\ FLess(vsVolumes[Len(vsVolumes)], vsVolumes[1])
    /\ VsNonIncreasing

\* The latest call made on the builder.
ClpLastCall == clpCalls[Len(clpCalls)]

\* C17: the builder starts with parallel = false and threads = 0; parallel()
\* sets parallel and leaves threads; threads(n) sets threads to n and leaves
\* parallel; build() returns the builder's current values and leaves the
\* builder; default().parallel().build() is {parallel: true, threads: 0} and
\* ClpSolverSettings::default() is {parallel: false, threads: 0}.
C17_Builder ==
    /\ clpCalls = << >> => clpBuilder = [parallel |-> FALSE, threads |-> 0]
    /\ clpCalls # << >> =>
        CASE ClpLastCall.op = "parallel" ->
                clpBuilder.parallel = TRUE /\ clpBuilder.threads = clpPrev.threads
          [] ClpLastCall.op = "threads" ->
                clpBuilder.threads = ClpLastCall.threads
                /\ clpBuilder.parallel = clpPrev.parallel
          [] ClpLastCall.op = "build" ->
                /\ clpSettings = Some([parallel |-> clpBuilder.parallel,
                                       threads |-> clpBuilder.threads])
                /\ clpBuilder = clpPrev
          [] ClpLastCall.op = "default" -> clpBuilder = clpPrev
    /\ clpCalls = << [op |-> "parallel"], [op |-> "build"] >> =>
           clpSettings = Some([parallel |-> TRUE, threads |-> 0])
    /\ clpDefault.some => clpDefault.value = [parallel |-> FALSE, threads |-> 0]

\* threads(n) with n > 0, then parallel(), then build(): the settings are
\* parallel with n threads.
C17_Witness ==
    /\ Len(clpCalls) = 3
    /\ clpCalls[1].op = "threads"
    /\ clpCalls[1].threads > 0
    /\ clpCalls[2].op = "parallel"
    /\ clpCalls[3].op = "build"
    /\ clpSettings = Some([parallel |-> TRUE, threads |-> clpCalls[1].threads])

\* C18: converting a v1 core node of any variant to a v2 CoreNode yields a v2
\* node or returns a ConversionError, and never aborts the program; RiverSplit,
\* MultiSplitLink, BreakLink, SeasonalVirtualStorage and RollingVirtualStorage
\* included.
C18_ConversionNeverAborts ==
    (convCall = "CoreNode") =>
        /\ convPc = "done"
        /\ \/ convResult.value.ok
           \/ convResult.value = Err(ConversionError(convV1.name))

\* The parameter of scenario S4 (minimum 0.05, maximum left to its default)
\* has been computed at the given proportional volume.
CcS4At(volume) ==
    /\ ccSchema = CcTestParameter(Some(Rat(1, 20)), None)
    /\ ccVolume = Some(volume)

C21_References ==
    /\ csRefs.some =>
          /\ DOMAIN csRefs.value = {"storage_node"}
          /\ csRefs.value["storage_node"] = csParam.value.storage_node
    /\ csAttrs.some =>
          /\ DOMAIN csAttrs.value = {"control_curves"}
          /\ csAttrs.value["control_curves"].type = "List"
          /\ Len(csAttrs.value["control_curves"].values) = Len(csParam.value.control_curves)

\* Both maps have been asked of the test's parameter, with its two curves.
C21_Witness ==
    /\ csRefs.some
    /\ csAttrs.some
    /\ csV1 = None
    /\ csRefs.value["storage_node"] = "Reservoir"
    /\ Len(csAttrs.value["control_curves"].values) = 2

\* The v2 values of a list of convertible v1 values.
CsConverted(ps) == [k \in 1..Len(ps) |-> try_into_v2_parameter(ps[k]).value]

\* Every v1 value of the list converts.
CsConvertible(ps) == \A k \in 1..Len(ps) : ps[k].v1 # "bad"

\* C27: the v1 conversion of the three control curve parameters uses the v1
\* control_curves list when present, else the one-element list of the v1
\* control_curve, and returns a V1SchemaConversion error with neither; for
\* ControlCurve, values come before parameters, and with neither the error is
\* returned.  (A value that does not convert fails the conversion.)
C27_V1Conversion ==
    csResult.some =>
        LET v1 == csV1.value
            r == csResult.value
            curves == IF v1.control_curves.some THEN v1.control_curves.value
                      ELSE IF v1.control_curve.some THEN <<v1.control_curve.value>>
                      ELSE << >>
            hasCurves == v1.control_curves.some \/ v1.control_curve.some
            isCC == v1.type = "ControlCurve"
            hasValues == ~isCC \/ v1.values.some \/ v1.parameters.some
            valuesOk == ~isCC \/ v1.values.some \/ ~v1.parameters.some
                            \/ CsConvertible(v1.parameters.value)
        IN /\ ~hasCurves => (~r.ok /\ r.error.kind = "V1SchemaConversion")
           /\ (isCC /\ ~v1.values.some /\ ~v1.parameters.some) =>
                  (~r.ok /\ r.error.kind = "V1SchemaConversion")
           /\ (hasCurves /\ CsConvertible(curves) /\ hasValues /\ valuesOk) => r.ok
           /\ r.ok =>
                 /\ r.value.control_curves = CsConverted(curves)
                 /\ (isCC /\ v1.values.some) =>
                        r.value.values = [k \in 1..Len(v1.values.value) |->
                                             Literal(v1.values.value[k])]
                 /\ (isCC /\ ~v1.values.some) =>
                        r.value.values = CsConverted(v1.parameters.value)

\* A v1 ControlCurve with a list of two curves and a single curve, with values
\* and parameters, has been converted: the list and the values are used.
C27_Witness ==
    /\ csResult.some
    /\ csResult.value.ok
    /\ csV1.value.type = "ControlCurve"
    /\ csV1.value.control_curves.some
    /\ Len(csV1.value.control_curves.value) = 2
    /\ csV1.value.control_curve.some
    /\ csV1.value.control_curve.value # csV1.value.control_curves.value[1]
    /\ csV1.value.values.some
    /\ csV1.value.parameters.some
    /\ Len(csParam.value.control_curves) = 2
    /\ csParam.value.values = <<Literal(F(1)), Literal(F(2))>>

\* set_constraints has run for wtw1.
WtwConstrained == wtwPc \in {"demand_constraints", "setup", "run"}

\* C22: with the constant loss factor 0, set_constraints leaves the factors of
\* the aggregated node unset, although add_to_model created the loss output
\* node and the aggregated node and the loss node is offered as an input
\* connector (and connected to input1); a loss factor held by a parameter is
\* installed as the second factor of Ratio [1, lf], whatever its value.
C22_ZeroLossFactor ==
    (WtwConstrained /\ wtwNode.loss_factor.some) =>
        LET lf == wtwNode.loss_factor.value
            agg == wtwModel.aggregated_nodes[1]
        IN /\ (lf.dynamic = "Constant" /\ lf.value.num = 0) =>
                 /\ agg.factors = None
                 /\ agg.name = "wtw1" /\ agg.sub_name = agg_sub_name
                 /\ has_node(wtwModel, "wtw1", loss_sub_name)
                 /\ wtwModel.nodes[WtwIdx("wtw1", loss_sub_name)].kind = "Output"
                 /\ \E k \in 1..Len(WaterTreatmentWorks_input_connectors(wtwNode)) :
                        WaterTreatmentWorks_input_connectors(wtwNode)[k] = <<"wtw1", loss_sub_name>>
                 /\ \E e \in 1..Len(wtwModel.edges) :
                        wtwModel.edges[e] = <<WtwIdx("input1", None), WtwIdx("wtw1", loss_sub_name)>>
           /\ lf.dynamic = "Parameter" =>
                 /\ agg.factors.some
                 /\ agg.factors.value.kind = "Ratio"
                 /\ Len(agg.factors.value.factors) = 2
                 /\ agg.factors.value.factors[1] = Constant(Rat(1, 1))
                 /\ agg.factors.value.factors[2].type = "ParameterValue"
                 /\ wtwModel.parameters[agg.factors.value.factors[2].idx] = lf.name

\* A works with the constant loss factor 0 has been built and a timestep
\* solved: the aggregated node is there without factors.
C22_Witness ==
    /\ wtwPc = "run"
    /\ wtwT > 0
    /\ wtwNode.loss_factor = Some(Literal(Rat(0, 1)))
    /\ Len(wtwModel.aggregated_nodes) = 1
    /\ wtwModel.aggregated_nodes[1].factors = None
    /\ has_node(wtwModel, "wtw1", loss_sub_name)

\* add_to_model has run for wtw1.
WtwAdded == wtwPc # "input" /\ wtwPc # "wtw"

\* C24: every (name, sub_name) pair returned by input_connectors() and
\* output_connectors() names a node add_to_model created for the same
\* configuration; the loss connector is returned exactly when the loss node
\* was created, and the two output connectors net_soft_min_flow and
\* net_above_soft_min_flow are always there.
C24_Connectors ==
    WtwAdded =>
        LET ins == WaterTreatmentWorks_input_connectors(wtwNode)
            outs == WaterTreatmentWorks_output_connectors(wtwNode)
        IN /\ \A k \in 1..Len(ins) : has_node(wtwModel, ins[k][1], ins[k][2])
           /\ \A k \in 1..Len(outs) : has_node(wtwModel, outs[k][1], outs[k][2])
           /\ (\E k \in 1..Len(ins) : ins[k] = <<"wtw1", loss_sub_name>>)
                  <=> has_node(wtwModel, "wtw1", loss_sub_name)
           /\ outs = << <<"wtw1", net_soft_min_flow_sub_name>>,
                        <<"wtw1", net_above_soft_min_flow_sub_name>> >>

\* A works without a loss factor has been added: one input connector, two
\* output connectors, and no loss node.
C24_Witness ==
    /\ wtwPc = "demand"
    /\ ~wtwNode.loss_factor.some
    /\ Len(WaterTreatmentWorks_input_connectors(wtwNode)) = 1
    /\ Len(WaterTreatmentWorks_output_connectors(wtwNode)) = 2
    /\ ~has_node(wtwModel, "wtw1", loss_sub_name)
    /\ has_node(wtwModel, "wtw1", net_above_soft_min_flow_sub_name)

\* C23: node_type returns, for every variant of CoreNode, the name of that
\* variant (its serialised "type" tag), so two nodes of different variants
\* never get the same string.
C23_NodeTypeIsVariantName ==
    /\ \A i \in 1..Len(ntTypes) : ntTypes[i] = CoreNode_type_tag(ntNodes[i])
    /\ Len(ntTypes) = 2 =>
           (ntNodes[1].variant # ntNodes[2].variant => ntTypes[1] # ntTypes[2])

\* C25: add_to_model passes cost = Scalar(0) and min_volume = Scalar(0) when
\* the node gives none, max_volume = None (unbounded) when the node gives
\* none, the loaded value of each field that is given, and reset = Never
\* whatever the node's fields are.
C25_Defaults ==
    (VsCalled /\ vsResult.value.ok) =>
        /\ VsAdded.name = vsNode.name
        /\ VsAdded.cost = (IF vsNode.cost.some
                           THEN Scalar(vsNode.cost.value) ELSE Scalar(F(0)))
        /\ VsAdded.min_volume = (IF vsNode.min_volume.some
                                 THEN Scalar(vsNode.min_volume.value) ELSE Scalar(F(0)))
        /\ VsAdded.max_volume = (IF vsNode.max_volume.some
                                 THEN Scalar(vsNode.max_volume.value) ELSE ConstraintValue_None)
        /\ VsAdded.reset = VirtualStorageReset_Never

\* A node without cost, min_volume and max_volume has been added, after an
\* earlier virtual storage, and got the three defaults and reset Never.
C25_Witness ==
    /\ VsCalled
    /\ vsResult.value.ok
    /\ ~vsNode.cost.some /\ ~vsNode.min_volume.some /\ ~vsNode.max_volume.some
    /\ Len(vsNetwork.virtual_storage_nodes) = 2
    /\ VsAdded.cost = Scalar(F(0))
    /\ VsAdded.min_volume = Scalar(F(0))
    /\ VsAdded.max_volume = ConstraintValue_None
    /\ VsAdded.reset = VirtualStorageReset_Never

\* The members the evaluated summing metric sums over.
AggMembers ==
    CASE aggMetric.type = "MultiNodeInFlow" -> aggMetric.indices
      [] aggMetric.type = "AggregatedNodeVolume" ->
             aggNetwork.aggregated_storage_nodes[aggMetric.idx]
      [] OTHER -> aggNetwork.aggregated_nodes[aggMetric.idx]

\* The values of the state the evaluated summing metric reads.
AggStored ==
    CASE aggMetric.type = "AggregatedNodeOutFlow" -> aggState.node_out_flows
      [] aggMetric.type = "AggregatedNodeVolume" -> aggState.node_volumes
      [] OTHER -> aggState.node_in_flows

\* The positions of the members whose value the state does not hold.
AggFailing == {k \in 1..Len(AggMembers) : AggMembers[k] \notin 1..Len(AggStored)}

\* C26: the summing metrics are all-or-nothing: when the read of any member
\* fails the result is that error (NodeIndexNotFound) and no sum, however
\* many members before or after it could be read; otherwise it is the sum of
\* all members, which is 0 for an empty member list.
C26_AllOrNothing ==
    aggResult.some =>
        LET result == aggResult.value
        IN /\ AggFailing # {} => result = Err("NodeIndexNotFound")
           /\ AggFailing = {} =>
                 result = Ok(F(Sum([k \in 1..Len(AggMembers) |-> AggStored[AggMembers[k]]],
                                   1..Len(AggMembers))))
           /\ AggMembers = << >> => result = Ok(F(0))

\* A metric over two members has been evaluated where the first member has a
\* positive value and the second cannot be read: the result is the error.
C26_Witness ==
    /\ aggResult.some
    /\ Len(AggMembers) = 2
    /\ AggFailing = {2}
    /\ AggStored[AggMembers[1]] > 0
    /\ aggResult.value = Err("NodeIndexNotFound")
    /\ aggMetric.type = "AggregatedNodeVolume"

\* The definitions handed to from_schema, and what loading each returns.
TsDefList == IF tsDefs.some THEN tsDefs.value ELSE << >>
TsLoads == [i \in 1..Len(TsDefList) |-> Timeseries_load(TsDefList[i])]

\* The positions of the definitions whose load does not return a data frame.
TsFailing == {i \in 1..Len(TsDefList) : ~TsLoads[i].ok}

\* The position of the last definition of a name.
TsLastOf(name) ==
    CHOOSE i \in 1..Len(TsDefList) :
        /\ TsDefList[i].name = name
        /\ \A j \in (i + 1)..Len(TsDefList) : TsDefList[j].name # name

TsOneAdded(name) ==
    /\ Len(tsNetwork.parameters) = Len(tsBefore.parameters) + 1
    /\ SubSeq(tsNetwork.parameters, 1, Len(tsBefore.parameters)) = tsBefore.parameters
    /\ tsNetwork.parameters[Len(tsNetwork.parameters)].name = name
    /\ tsResult.value.value = Len(tsNetwork.parameters)

\* C29: load_column and load_df return TimeseriesNotFound, and add no
\* parameter, when the named timeseries is not in the collection; load_df
\* checks the scenario group first, so an unknown group gives
\* ScenarioGroupNotFound even when the timeseries is unknown too; on success
\* exactly one parameter is added, named <name>_<col> or <name>_<scenario>.
C29_Load ==
    tsCall.some =>
        LET call == tsCall.value
            result == tsResult.value
            known == HashMap_contains(tsCollection.value.value.timeseries, call.name)
        IN /\ call.fn = "load_column" =>
                 /\ ~known => (result = Err(TimeseriesNotFound(call.name))
                               /\ tsNetwork = tsBefore)
                 /\ result.ok => TsOneAdded(call.name \o "_" \o call.col)
           /\ call.fn = "load_df" =>
                 /\ ~group_index(TsDomain, call.scenario).some =>
                        (result = Err(ScenarioGroupNotFound(call.scenario))
                         /\ tsNetwork = tsBefore)
                 /\ (group_index(TsDomain, call.scenario).some /\ ~known) =>
                        (result = Err(TimeseriesNotFound(call.name))
                         /\ tsNetwork = tsBefore)
                 /\ result.ok => TsOneAdded(call.name \o "_" \o call.scenario)
           /\ ~result.ok => tsNetwork = tsBefore

\* After load_column added the parameter a_x, load_df was called with a
\* timeseries and a scenario group that are both unknown.
C29_Witness ==
    /\ tsCalls = 2
    /\ tsCall.value.fn = "load_df"
    /\ ~HashMap_contains(tsCollection.value.value.timeseries, tsCall.value.name)
    /\ tsCall.value.scenario = "t"
    /\ tsResult.value = Err(ScenarioGroupNotFound("t"))
    /\ Len(tsNetwork.parameters) = 1
    /\ tsNetwork.parameters[1].name = "a_x"
    /\ tsNetwork = tsBefore

====
